---- MODULE Spec2Model ----
(***************************************************************************)
(* Credential-refresh scheduler, refresh executor and request-time reauth  *)
(* flow of done-hub (cron/codex_credential_refresh.go and the Codex        *)
(* controller), the user-token codec (common/user-token.go) and the path   *)
(* normalisation middleware (router/main.go), as a state machine.          *)
(*                                                                         *)
(* Strings are sequences of characters.  Times are whole hours; 0 is Go's   *)
(* zero time.Time.                                                         *)
(***************************************************************************)
EXTENDS Integers, Sequences, FiniteSets, TLC

(***************************************************************************)
(* Bounds of the model.                                                    *)
(***************************************************************************)
NumChannels == 2        \* channel ids 1..NumChannels exist in the store
NumSweepers == 2        \* concurrent invocations of the cron job
MaxTicks == 1           \* the clock advances at most this many hours
MaxIssued == 3          \* token sets the authorization endpoint issues per channel
\* Page size of the sweep.  The source pages by 200; the model pages by a
\* small number so that sweeps of several pages occur with few channels.
codexCredentialRefreshBatchSize == 1
MaxId == 1              \* token and user ids 0..MaxId
MaxInits == 2           \* calls of InitUserToken in one process
MaxContexts == 2        \* keyed-hash contexts hmacPool.New makes in one process
MaxSegments == 3        \* path segments of a request

(***************************************************************************)
(* Program constants.                                                      *)
(***************************************************************************)
codexCredentialRefreshThreshold == 24   \* hours
RefreshMaxAttempts == 3                 \* creds.Refresh(ctx, proxyURL, 3)
StatusOK == 200
StatusUnauthorized == 401
StatusForbidden == 403
StatusServerError == 500
Now0 == 1000            \* the hour at which the model starts
TokenLifetime == 240    \* hours a freshly issued access token lives
hashidsMinLength == 15  \* shortest payload sqids pads to

ChannelIds == 1..NumChannels
Sweepers == 1..NumSweepers
UsageReq == NumSweepers + 1             \* the one request-handling worker
ManualReq == NumSweepers + 2            \* the one manual-refresh worker
Procs == Sweepers \cup {UsageReq, ManualReq}

Space == " "
EmptyString == << >>
DefaultClientID == <<"app">>                \* codex.DefaultClientID
ChannelTypeCodex == "codex"             \* config.ChannelTypeCodex

(***************************************************************************)
(* strings.TrimSpace                                                       *)
(***************************************************************************)
RECURSIVE TrimLeft(_)
TrimLeft(s) ==
    IF s # << >> /\ Head(s) = Space THEN TrimLeft(Tail(s)) ELSE s

RECURSIVE TrimRight(_)
TrimRight(s) ==
    IF s # << >> /\ s[Len(s)] = Space THEN TrimRight(SubSeq(s, 1, Len(s) - 1)) ELSE s

TrimSpace(s) == TrimRight(TrimLeft(s))

(***************************************************************************)
(* codex.OAuth2Credentials and the channel's key blob.                     *)
(***************************************************************************)
NoCreds ==
    [AccessToken |-> EmptyString, RefreshToken |-> EmptyString,
     AccountID |-> EmptyString, ClientID |-> EmptyString, ExpiresAt |-> 0]

Creds(at, rt, acct, exp) ==
    [AccessToken |-> at, RefreshToken |-> rt,
     AccountID |-> acct, ClientID |-> EmptyString, ExpiresAt |-> exp]

\* A key is either raw text that is no JSON credential, or the JSON text of one.
RawKey(text) == [json |-> FALSE, text |-> text, c |-> NoCreds]

ToJSON(c) == [json |-> TRUE, text |-> <<"{">>, c |-> c]

\* strings.TrimSpace(ch.Key) == ""
KeyIsBlank(k) == ~k.json /\ TrimSpace(k.text) = EmptyString

FromJSONFails(k) == ~k.json

FromJSON(k) == k.c

\* ExpiresAt.IsZero()
IsZero(t) == t = 0

\* time.Until(t), in hours
Until(t, clock) == t - clock

(***************************************************************************)
(* State.                                                                  *)
(***************************************************************************)
VARIABLES
    now,        \* wall clock, hours
    db,         \* model.DB: channel id -> [Type, Status, Key]
    issued,     \* authorization endpoint: token sets issued so far per channel
    codexCredentialRefreshRunning,  \* the atomic.Bool guard
    pc,         \* position of every worker
    ch,         \* the *model.Channel a worker holds (Id = 0: none)
    creds,      \* the *codex.OAuth2Credentials a worker holds
    execErr,    \* what the executor returned to the worker: "nil" or an error
    offset, channels, idx,          \* sweep locals: offset, page, loop index
    refreshed, scanned, failed,     \* sweep locals: the three counters
    statusCode, body, fetchErr,     \* request locals
    resp,       \* the JSON response the request wrote
    examined,   \* history: per sweep and channel, how it was examined
    runs,       \* history: executor runs a worker started in its current operation
    loads,      \* history: model.ChannelGroup.Load calls of the current operation
    fetches     \* history: upstream fetches of the current request

sweepVars == <<offset, channels, idx, refreshed, scanned, failed, examined>>
reqVars == <<statusCode, body, fetchErr, resp, fetches>>
execVars == <<ch, creds, execErr>>
coreVars == <<now, db, issued, codexCredentialRefreshRunning, pc, execVars,
              sweepVars, reqVars, runs, loads>>

VARIABLES
    settings,       \* viper: the configuration keys InitUserToken reads
    SessionSecret,  \* config.SessionSecret
    secretFile,     \* the file .user_token_secret: [exists, text]
    hashids,        \* the *sqids.Sqids (ok = FALSE: nil)
    jwtSecretBytes, \* the signing key
    inits,          \* calls of InitUserToken so far
    initErr,        \* what the last InitUserToken returned
    hmacCtx,        \* every hash.Hash hmacPool.New has made: [made, key, buf]
    hmacPool,       \* the contexts lying in hmacPool
    tpc,            \* position of every token call
    h,              \* the context a token call holds (0: none)
    call,           \* arguments, locals and result of a token call
    wire            \* the token GenerateToken returned last

tokenVars == <<settings, SessionSecret, secretFile, hashids, jwtSecretBytes, inits,
               initErr, hmacCtx, hmacPool, tpc, h, call, wire>>

VARIABLES
    rpc,            \* position of the request in the middleware chain
    path, rawPath,  \* c.Request.URL.Path and c.Request.URL.RawPath
    arrived,        \* history: the path the request came with
    dispatches,     \* history: engine.HandleContext calls for the request
    served          \* history: the paths handed on by c.Next()

routerVars == <<rpc, path, rawPath, arrived, dispatches, served>>

vars == <<coreVars, tokenVars, routerVars>>

NoChannel == [Id |-> 0, Key |-> RawKey(EmptyString)]
NotExamined == [n |-> 0, key |-> RawKey(EmptyString), at |-> 0]
NoBody == [valid |-> FALSE, v |-> 0]
NoResp == [kind |-> "none", success |-> FALSE, message |-> "", upstream_status |-> 0,
           data |-> NoBody]

(***************************************************************************)
(* Initial store contents.                                                 *)
(***************************************************************************)
Tok(n) == <<ToString(n)>>
Account == <<"acct">>

FullCreds(exp) == ToJSON(Creds(Tok(1), Tok(1), Account, exp))

Row(type, status, k) == [Type |-> type, Status |-> status, Key |-> k]

\* Rows the sweep meets: every way to be skipped, and every way to be due.
SweepRows ==
    { Row(ChannelTypeCodex, 1, RawKey(<<Space>>)),                \* blank key
      Row(ChannelTypeCodex, 1, RawKey(<<"x">>)),                    \* not JSON
      Row(ChannelTypeCodex, 1,
          ToJSON(Creds(Tok(1), <<Space>>, Account, Now0 - 1))),   \* no refresh token
      Row(ChannelTypeCodex, 1, FullCreds(0)),                     \* zero expiry
      Row(ChannelTypeCodex, 1,
          FullCreds(Now0 + codexCredentialRefreshThreshold + 1)), \* due after a tick
      Row(ChannelTypeCodex, 2, FullCreds(Now0 - 1)) }             \* disabled

\* Rows a usage request meets.
UsageRows ==
    { Row("openai", 1, RawKey(<<"x">>)),
      Row(ChannelTypeCodex, 1, RawKey(EmptyString)),
      Row(ChannelTypeCodex, 1, RawKey(<<"x">>)),
      Row(ChannelTypeCodex, 1, ToJSON(Creds(<<Space>>, Tok(1), Account, Now0 - 1))),
      Row(ChannelTypeCodex, 1, ToJSON(Creds(Tok(1), Tok(1), <<Space>>, Now0 - 1))),
      Row(ChannelTypeCodex, 1, ToJSON(Creds(Tok(1), EmptyString, Account, Now0 - 1))),
      Row(ChannelTypeCodex, 1, FullCreds(Now0 - 1)) }

\* Rows for the paging: another provider's channel, a disabled one, and two
\* enabled Codex channels, one of them due.
PageRows ==
    { Row("openai", 1, FullCreds(Now0 - 1)),
      Row(ChannelTypeCodex, 2, FullCreds(Now0 - 1)),
      Row(ChannelTypeCodex, 1, FullCreds(Now0 - 1)),
      Row(ChannelTypeCodex, 1, RawKey(<<"x">>)) }

\* Rows for the guard: every channel is due.
GuardRows ==
    { Row(ChannelTypeCodex, 1, FullCreds(Now0 - 1)) }

InitWith(rows) ==
    /\ now = Now0
    /\ db \in [ChannelIds -> rows]
    /\ issued = [c \in ChannelIds |-> 1]
    /\ codexCredentialRefreshRunning = FALSE
    /\ pc = [p \in Procs |-> "idle"]
    /\ ch = [p \in Procs |-> NoChannel]
    /\ creds = [p \in Procs |-> NoCreds]
    /\ execErr = [p \in Procs |-> "nil"]
    /\ offset = [s \in Sweepers |-> 0]
    /\ channels = [s \in Sweepers |-> << >>]
    /\ idx = [s \in Sweepers |-> 0]
    /\ refreshed = [s \in Sweepers |-> 0]
    /\ scanned = [s \in Sweepers |-> 0]
    /\ failed = [s \in Sweepers |-> 0]
    /\ examined = [s \in Sweepers |-> [c \in ChannelIds |-> NotExamined]]
    /\ statusCode = 0
    /\ body = NoBody
    /\ fetchErr = FALSE
    /\ resp = NoResp
    /\ runs = [p \in Procs |-> << >>]
    /\ loads = [p \in Procs |-> 0]
    /\ fetches = << >>

(***************************************************************************)
(* The store's query of the sweep:                                         *)
(*   Where("type = ? AND status = 1").Order("id asc").Limit(n).Offset(o)   *)
(***************************************************************************)
RECURSIVE SelectFrom(_, _)
SelectFrom(rows, id) ==
    IF id > NumChannels THEN << >>
    ELSE IF rows[id].Type = ChannelTypeCodex /\ rows[id].Status = 1
         THEN <<[Id |-> id, Key |-> rows[id].Key]>> \o SelectFrom(rows, id + 1)
         ELSE SelectFrom(rows, id + 1)

Min(a, b) == IF a < b THEN a ELSE b

\* A query that has lost its WHERE clause.
QueryChannelsUnfiltered(rows, limit, off) ==
    LET all == [i \in 1..NumChannels |-> [Id |-> i, Key |-> rows[i].Key]]
    IN  SubSeq(all, off + 1, Min(Len(all), off + limit))

QueryChannels(rows, limit, off) ==
    LET all == SelectFrom(rows, 1)
    IN  SubSeq(all, off + 1, Min(Len(all), off + limit))

(***************************************************************************)
(* History bookkeeping.                                                    *)
(***************************************************************************)
NewRun(id) == [id |-> id, result |-> "running", wrote |-> FALSE,
               written |-> RawKey(EmptyString)]

SetLast(seq, r) == [seq EXCEPT ![Len(seq)] = r]

Last(seq) == seq[Len(seq)]

(***************************************************************************)
(* Refresh executor: RefreshCodexChannelCredentialInternal.                *)
(***************************************************************************)
\* creds.ClientID defaulting before the refresh
WithClientID(c) ==
    IF c.ClientID = EmptyString THEN [c EXCEPT !.ClientID = DefaultClientID] ELSE c

\* Credential.Refresh(ctx, proxyURL, maxAttempts): the ways one call can end:
\* new tokens, a rejection by the endpoint, the context's deadline, or
\* maxAttempts transient failures in a row.
RefreshOutcomes(maxAttempts) ==
    { [ok |-> TRUE, why |-> "issued"],
      [ok |-> FALSE, why |-> "rejected"],
      [ok |-> FALSE, why |-> "timeout"] }
    \cup (IF maxAttempts >= 1 THEN {[ok |-> FALSE, why |-> "exhausted"]} ELSE {})

\* The token set the authorization endpoint issues as its g-th for a channel.
Exchanged(c, g, clock) ==
    [c EXCEPT !.AccessToken = Tok(g), !.RefreshToken = Tok(g),
              !.ExpiresAt = clock + TokenLifetime]

\* An executor that goes on to the write whatever creds.Refresh returned.
Exec_RefreshErrorIgnored(p) ==
    /\ pc[p] = "exec_refresh"
    /\ \E o \in RefreshOutcomes(RefreshMaxAttempts) :
        IF o.ok
        THEN /\ issued[ch[p].Id] < MaxIssued
             /\ issued' = [issued EXCEPT ![ch[p].Id] = @ + 1]
             /\ creds' = [creds EXCEPT ![p] =
                    Exchanged(WithClientID(creds[p]), issued[ch[p].Id] + 1, now)]
        ELSE /\ creds' = [creds EXCEPT ![p] = WithClientID(creds[p])]
             /\ UNCHANGED issued
    /\ pc' = [pc EXCEPT ![p] = "exec_write"]
    /\ UNCHANGED <<now, db, codexCredentialRefreshRunning, ch, execErr, runs,
                   sweepVars, reqVars, loads>>
    /\ UNCHANGED <<tokenVars, routerVars>>

\* Lines 127-141: proxy, default client id, creds.Refresh with a budget of 3.
Exec_Refresh(p) ==
    /\ pc[p] = "exec_refresh"
    /\ \E o \in RefreshOutcomes(RefreshMaxAttempts) :
        IF o.ok
        THEN /\ issued[ch[p].Id] < MaxIssued
             /\ issued' = [issued EXCEPT ![ch[p].Id] = @ + 1]
             /\ creds' = [creds EXCEPT ![p] =
                    Exchanged(WithClientID(creds[p]), issued[ch[p].Id] + 1, now)]
             /\ pc' = [pc EXCEPT ![p] = "exec_write"]
             /\ UNCHANGED <<execErr, runs>>
        ELSE /\ creds' = [creds EXCEPT ![p] = WithClientID(creds[p])]
             /\ execErr' = [execErr EXCEPT ![p] = "token refresh failed"]
             /\ runs' = [runs EXCEPT ![p] =
                    SetLast(@, [Last(@) EXCEPT !.result = "refresh_failed"])]
             /\ pc' = [pc EXCEPT ![p] = "exec_ret"]
             /\ UNCHANGED issued
    /\ UNCHANGED <<now, db, codexCredentialRefreshRunning, ch, sweepVars, reqVars, loads>>
    /\ UNCHANGED <<tokenVars, routerVars>>

\* model.UpdateChannelKey(id, key)
UpdateChannelKey(rows, id, k) == [rows EXCEPT ![id].Key = k]

\* An executor that returns success although the store write failed.
Exec_WriteErrorDropped(p) ==
    /\ pc[p] = "exec_write"
    /\ \E writeOK \in BOOLEAN :
        IF writeOK
        THEN /\ db' = UpdateChannelKey(db, ch[p].Id, ToJSON(creds[p]))
             /\ runs' = [runs EXCEPT ![p] =
                    SetLast(@, [Last(@) EXCEPT !.result = "ok", !.wrote = TRUE,
                                               !.written = db'[ch[p].Id].Key])]
        ELSE /\ runs' = [runs EXCEPT ![p] =
                    SetLast(@, [Last(@) EXCEPT !.result = "update_failed"])]
             /\ UNCHANGED db
    /\ execErr' = [execErr EXCEPT ![p] = "nil"]
    /\ pc' = [pc EXCEPT ![p] = "exec_ret"]
    /\ UNCHANGED <<now, issued, codexCredentialRefreshRunning, ch, creds,
                   sweepVars, reqVars, loads>>
    /\ UNCHANGED <<tokenVars, routerVars>>

\* An executor that leaves the store alone, and reports success, when the key
\* is no longer the one its caller read.
Exec_WriteIfUnchanged(p) ==
    /\ pc[p] = "exec_write"
    /\ \E writeOK \in BOOLEAN :
        IF writeOK
        THEN /\ db' = IF db[ch[p].Id].Key = ch[p].Key
                       THEN UpdateChannelKey(db, ch[p].Id, ToJSON(creds[p]))
                       ELSE db
             /\ execErr' = [execErr EXCEPT ![p] = "nil"]
             /\ runs' = [runs EXCEPT ![p] =
                    SetLast(@, [Last(@) EXCEPT !.result = "ok", !.wrote = TRUE,
                                               !.written = db'[ch[p].Id].Key])]
        ELSE /\ execErr' = [execErr EXCEPT ![p] = "failed to update channel key"]
             /\ runs' = [runs EXCEPT ![p] =
                    SetLast(@, [Last(@) EXCEPT !.result = "update_failed"])]
             /\ UNCHANGED db
    /\ pc' = [pc EXCEPT ![p] = "exec_ret"]
    /\ UNCHANGED <<now, issued, codexCredentialRefreshRunning, ch, creds,
                   sweepVars, reqVars, loads>>
    /\ UNCHANGED <<tokenVars, routerVars>>

\* Lines 143-154: serialize, write the store, return.
Exec_Write(p) ==
    /\ pc[p] = "exec_write"
    /\ \E writeOK \in BOOLEAN :
        IF writeOK
        THEN /\ db' = UpdateChannelKey(db, ch[p].Id, ToJSON(creds[p]))
             /\ execErr' = [execErr EXCEPT ![p] = "nil"]
             /\ runs' = [runs EXCEPT ![p] =
                    SetLast(@, [Last(@) EXCEPT !.result = "ok", !.wrote = TRUE,
                                               !.written = db'[ch[p].Id].Key])]
        ELSE /\ execErr' = [execErr EXCEPT ![p] = "failed to update channel key"]
             /\ runs' = [runs EXCEPT ![p] =
                    SetLast(@, [Last(@) EXCEPT !.result = "update_failed"])]
             /\ UNCHANGED db
    /\ pc' = [pc EXCEPT ![p] = "exec_ret"]
    /\ UNCHANGED <<now, issued, codexCredentialRefreshRunning, ch, creds,
                   sweepVars, reqVars, loads>>
    /\ UNCHANGED <<tokenVars, routerVars>>

(***************************************************************************)
(* Refresh scheduler: RunCodexCredentialAutoRefresh.                       *)
(***************************************************************************)
\* A guard that is set without being tested.
CompareAndSwapUntested(flag) == TRUE

\* atomic.Bool.CompareAndSwap(false, true): TRUE iff the swap happened
CompareAndSwapSucceeds(flag) == flag = FALSE

\* Lines 31-43: the guard, then the locals.
Sweep_Enter(s) ==
    /\ pc[s] = "idle"
    /\ IF CompareAndSwapSucceeds(codexCredentialRefreshRunning)
       THEN /\ codexCredentialRefreshRunning' = TRUE
            /\ pc' = [pc EXCEPT ![s] = "query"]
       ELSE /\ pc' = [pc EXCEPT ![s] = "skipped"]
            /\ UNCHANGED codexCredentialRefreshRunning
    /\ UNCHANGED <<now, db, issued, execVars, sweepVars, reqVars, runs, loads>>
    /\ UNCHANGED <<tokenVars, routerVars>>

\* Line 33: the return of an invocation that found the guard taken.
Sweep_SkipReturn(s) ==
    /\ pc[s] = "skipped"
    /\ pc' = [pc EXCEPT ![s] = "idle"]
    /\ UNCHANGED <<now, db, issued, codexCredentialRefreshRunning, execVars,
                   sweepVars, reqVars, runs, loads>>
    /\ UNCHANGED <<tokenVars, routerVars>>

\* Lines 44-60: one page query.
Sweep_Query(s) ==
    /\ pc[s] = "query"
    /\ \E queryOK \in BOOLEAN :
        IF ~queryOK
        THEN /\ pc' = [pc EXCEPT ![s] = "aborted"]
             /\ UNCHANGED <<offset, channels, idx>>
        ELSE LET page == QueryChannels(db, codexCredentialRefreshBatchSize, offset[s])
             IN  /\ channels' = [channels EXCEPT ![s] = page]
                 /\ IF Len(page) = 0
                    THEN /\ pc' = [pc EXCEPT ![s] = "after_loop"]
                         /\ UNCHANGED <<offset, idx>>
                    ELSE /\ offset' = [offset EXCEPT ![s] = @ + codexCredentialRefreshBatchSize]
                         /\ idx' = [idx EXCEPT ![s] = 1]
                         /\ pc' = [pc EXCEPT ![s] = "examine"]
    /\ UNCHANGED <<now, db, issued, codexCredentialRefreshRunning, execVars,
                   refreshed, scanned, failed, examined, reqVars, runs, loads>>
    /\ UNCHANGED <<tokenVars, routerVars>>

\* A threshold test that skips a credential exactly 24 hours from expiry.
NeedsRefreshStrict(c, clock) ==
    ~(~IsZero(c.ExpiresAt) /\ Until(c.ExpiresAt, clock) >= codexCredentialRefreshThreshold)

\* A threshold test that leaves credentials without an expiry alone.
NeedsRefreshSkipZero(c, clock) ==
    ~IsZero(c.ExpiresAt) /\ Until(c.ExpiresAt, clock) <= codexCredentialRefreshThreshold

\* Lines 84-87: due unless a known expiry is more than the threshold away.
NeedsRefresh(c, clock) ==
    ~(~IsZero(c.ExpiresAt) /\ Until(c.ExpiresAt, clock) > codexCredentialRefreshThreshold)

\* A loop body that forgets the refresh-token test.
SweepDecisionNoTokenTest(k, clock) ==
    IF KeyIsBlank(k) THEN "skip"
    ELSE IF FromJSONFails(k) THEN "skip"
    ELSE IF ~NeedsRefresh(FromJSON(k), clock) THEN "skip"
    ELSE "refresh"

\* Lines 68-87: what the loop body decides for one channel.
SweepDecision(k, clock) ==
    IF KeyIsBlank(k) THEN "skip"
    ELSE IF FromJSONFails(k) THEN "skip"
    ELSE IF TrimSpace(FromJSON(k).RefreshToken) = EmptyString THEN "skip"
    ELSE IF ~NeedsRefresh(FromJSON(k), clock) THEN "skip"
    ELSE "refresh"

\* The loop's continue: next element, or the next page.
Advance(s) ==
    IF idx[s] < Len(channels[s])
    THEN /\ idx' = [idx EXCEPT ![s] = @ + 1]
         /\ pc' = [pc EXCEPT ![s] = "examine"]
    ELSE /\ pc' = [pc EXCEPT ![s] = "query"]
         /\ UNCHANGED idx

\* Lines 62-91: examine one channel of the page; skip it or call the executor.
Sweep_Examine(s) ==
    /\ pc[s] = "examine"
    /\ LET cur == channels[s][idx[s]]
       IN  /\ scanned' = [scanned EXCEPT ![s] = @ + 1]
           /\ examined' = [examined EXCEPT ![s][cur.Id] =
                  [n |-> @.n + 1, key |-> cur.Key, at |-> now]]
           /\ IF SweepDecision(cur.Key, now) = "skip"
              THEN /\ Advance(s)
                   /\ UNCHANGED <<execVars, runs>>
              ELSE /\ ch' = [ch EXCEPT ![s] = cur]
                   /\ creds' = [creds EXCEPT ![s] = FromJSON(cur.Key)]
                   /\ runs' = [runs EXCEPT ![s] = Append(@, NewRun(cur.Id))]
                   /\ pc' = [pc EXCEPT ![s] = "exec_refresh"]
                   /\ UNCHANGED <<execErr, idx>>
    /\ UNCHANGED <<now, db, issued, codexCredentialRefreshRunning, offset, channels,
                   refreshed, failed, reqVars, loads>>
    /\ UNCHANGED <<tokenVars, routerVars>>

\* A loop that stops at the first failed refresh.
Sweep_AfterRefreshStopOnError(s) ==
    /\ s \in Sweepers
    /\ pc[s] = "exec_ret"
    /\ IF execErr[s] # "nil"
       THEN /\ failed' = [failed EXCEPT ![s] = @ + 1]
            /\ pc' = [pc EXCEPT ![s] = "after_loop"]
            /\ UNCHANGED <<refreshed, idx>>
       ELSE /\ refreshed' = [refreshed EXCEPT ![s] = @ + 1]
            /\ Advance(s)
            /\ UNCHANGED failed
    /\ UNCHANGED <<now, db, issued, codexCredentialRefreshRunning, execVars,
                   offset, channels, scanned, examined, reqVars, runs, loads>>
    /\ UNCHANGED <<tokenVars, routerVars>>

\* Lines 92-104: count the executor's result and go on.
Sweep_AfterRefresh(s) ==
    /\ s \in Sweepers
    /\ pc[s] = "exec_ret"
    /\ IF execErr[s] # "nil"
       THEN /\ failed' = [failed EXCEPT ![s] = @ + 1]
            /\ UNCHANGED refreshed
       ELSE /\ refreshed' = [refreshed EXCEPT ![s] = @ + 1]
            /\ UNCHANGED failed
    /\ Advance(s)
    /\ UNCHANGED <<now, db, issued, codexCredentialRefreshRunning, execVars,
                   offset, channels, scanned, examined, reqVars, runs, loads>>
    /\ UNCHANGED <<tokenVars, routerVars>>

\* Lines 107-122: reload the channel cache if anything was refreshed (a panic
\* of the callback is recovered), then the summary.
Sweep_AfterLoop(s) ==
    /\ pc[s] = "after_loop"
    /\ IF refreshed[s] > 0
       THEN \E panics \in BOOLEAN : loads' = [loads EXCEPT ![s] = @ + 1]
       ELSE UNCHANGED loads
    /\ pc' = [pc EXCEPT ![s] = "done"]
    /\ UNCHANGED <<now, db, issued, codexCredentialRefreshRunning, execVars,
                   sweepVars, reqVars, runs>>
    /\ UNCHANGED <<tokenVars, routerVars>>

\* A Store(false) at the end of the function instead of a deferred one.
Sweep_ReturnNotDeferred(s) ==
    /\ pc[s] \in {"done", "aborted"}
    /\ codexCredentialRefreshRunning' =
          IF pc[s] = "done" THEN FALSE ELSE codexCredentialRefreshRunning
    /\ pc' = [pc EXCEPT ![s] = "idle"]
    /\ ch' = [ch EXCEPT ![s] = NoChannel]
    /\ creds' = [creds EXCEPT ![s] = NoCreds]
    /\ execErr' = [execErr EXCEPT ![s] = "nil"]
    /\ offset' = [offset EXCEPT ![s] = 0]
    /\ channels' = [channels EXCEPT ![s] = << >>]
    /\ idx' = [idx EXCEPT ![s] = 0]
    /\ refreshed' = [refreshed EXCEPT ![s] = 0]
    /\ scanned' = [scanned EXCEPT ![s] = 0]
    /\ failed' = [failed EXCEPT ![s] = 0]
    /\ examined' = [examined EXCEPT ![s] = [c \in ChannelIds |-> NotExamined]]
    /\ runs' = [runs EXCEPT ![s] = << >>]
    /\ loads' = [loads EXCEPT ![s] = 0]
    /\ UNCHANGED <<now, db, issued, reqVars>>
    /\ UNCHANGED <<tokenVars, routerVars>>

\* Line 35: the deferred Store(false), at either return.
Sweep_Return(s) ==
    /\ pc[s] \in {"done", "aborted"}
    /\ codexCredentialRefreshRunning' = FALSE
    /\ pc' = [pc EXCEPT ![s] = "idle"]
    /\ ch' = [ch EXCEPT ![s] = NoChannel]
    /\ creds' = [creds EXCEPT ![s] = NoCreds]
    /\ execErr' = [execErr EXCEPT ![s] = "nil"]
    /\ offset' = [offset EXCEPT ![s] = 0]
    /\ channels' = [channels EXCEPT ![s] = << >>]
    /\ idx' = [idx EXCEPT ![s] = 0]
    /\ refreshed' = [refreshed EXCEPT ![s] = 0]
    /\ scanned' = [scanned EXCEPT ![s] = 0]
    /\ failed' = [failed EXCEPT ![s] = 0]
    /\ examined' = [examined EXCEPT ![s] = [c \in ChannelIds |-> NotExamined]]
    /\ runs' = [runs EXCEPT ![s] = << >>]
    /\ loads' = [loads EXCEPT ![s] = 0]
    /\ UNCHANGED <<now, db, issued, reqVars>>
    /\ UNCHANGED <<tokenVars, routerVars>>

\* The clock.
Tick ==
    /\ now < Now0 + MaxTicks
    /\ now' = now + 1
    /\ UNCHANGED <<db, issued, codexCredentialRefreshRunning, pc, execVars,
                   sweepVars, reqVars, runs, loads>>
    /\ UNCHANGED <<tokenVars, routerVars>>

(***************************************************************************)
(* Request-time flow: GetCodexChannelUsage.                                *)
(***************************************************************************)
Bodies == { [valid |-> TRUE, v |-> 1], [valid |-> FALSE, v |-> 2] }

Statuses == {StatusOK, StatusUnauthorized, StatusForbidden, StatusServerError}

\* c.Param("id"): a number, or text strconv.Atoi rejects
Params == [isInt : {TRUE}, id : 0..NumChannels] \cup {[isInt |-> FALSE, id |-> 0]}

\* Lines 116-120: json.Unmarshal of the body, or the body as a string.
Payload(b) == IF b.valid THEN [json |-> TRUE, v |-> b.v] ELSE [json |-> FALSE, v |-> b.v]

Failure(kind, message) ==
    [kind |-> kind, success |-> FALSE, message |-> message, upstream_status |-> 0,
     data |-> NoBody]

\* A response whose success test has lost its upper bound.
UsageResultNoUpperBound(status, b) ==
    LET ok == status >= 200
    IN  [kind |-> "result", success |-> ok,
         message |-> IF ok THEN "" ELSE "upstream status",
         upstream_status |-> status, data |-> Payload(b)]

\* Lines 116-132: the response built from the last status and body.
UsageResult(status, b) ==
    LET ok == status >= 200 /\ status < 300
    IN  [kind |-> "result", success |-> ok,
         message |-> IF ok THEN "" ELSE "upstream status",
         upstream_status |-> status, data |-> Payload(b)]

Respond(r) ==
    /\ resp' = r
    /\ pc' = [pc EXCEPT ![UsageReq] = "responded"]

\* Lines 26-67: the checks that end a request before any upstream call.
UsageRejection(param, getOK) ==
    IF ~param.isInt THEN Failure("error", "invalid channel id")
    ELSE IF ~getOK \/ param.id \notin ChannelIds THEN Failure("error", "get channel failed")
    ELSE LET row == db[param.id]
         IN  IF row.Type # ChannelTypeCodex
               THEN Failure("message", "channel type is not Codex")
             ELSE IF KeyIsBlank(row.Key)
               THEN Failure("message", "channel key is empty")
             ELSE IF FromJSONFails(row.Key)
               THEN Failure("message", "parse credentials failed")
             ELSE IF TrimSpace(FromJSON(row.Key).AccessToken) = EmptyString
               THEN Failure("message", "access_token is required")
             ELSE IF TrimSpace(FromJSON(row.Key).AccountID) = EmptyString
               THEN Failure("message", "account_id is required")
             ELSE NoResp

\* The model serves one request at a time, a usage request or a manual
\* refresh, next to the scheduler.
NoRequest == pc[UsageReq] = "idle" /\ pc[ManualReq] = "idle"

\* Lines 25-85: read the channel and its credential.
Usage_Begin ==
    /\ NoRequest
    /\ \E param \in Params, getOK \in BOOLEAN :
        LET rej == UsageRejection(param, getOK)
        IN  IF rej # NoResp
            THEN /\ Respond(rej)
                 /\ UNCHANGED <<ch, creds>>
            ELSE /\ ch' = [ch EXCEPT ![UsageReq] =
                        [Id |-> param.id, Key |-> db[param.id].Key]]
                 /\ creds' = [creds EXCEPT ![UsageReq] = FromJSON(db[param.id].Key)]
                 /\ pc' = [pc EXCEPT ![UsageReq] = "fetch1"]
                 /\ UNCHANGED resp
    /\ UNCHANGED <<now, db, issued, codexCredentialRefreshRunning, execErr, sweepVars,
                   statusCode, body, fetchErr, fetches, runs, loads>>
    /\ UNCHANGED <<tokenVars, routerVars>>

\* fetchCodexWhamUsage: an error, or a status with a body
FetchResults ==
    [err : {FALSE}, status : Statuses, body : Bodies]
    \cup {[err |-> TRUE, status |-> 0, body |-> NoBody]}

\* Lines 87-99: the first fetch, and what follows from its status.
Usage_Fetch1 ==
    /\ pc[UsageReq] = "fetch1"
    /\ \E f \in FetchResults :
        /\ statusCode' = f.status
        /\ body' = f.body
        /\ fetchErr' = f.err
        /\ fetches' = Append(fetches,
              [token |-> TrimSpace(creds[UsageReq].AccessToken), result |-> f])
        /\ IF f.err
           THEN /\ Respond(Failure("message", "fetch usage failed"))
                /\ UNCHANGED runs
           ELSE IF /\ f.status \in {StatusUnauthorized, StatusForbidden}
                   /\ TrimSpace(creds[UsageReq].RefreshToken) # EmptyString
           THEN /\ runs' = [runs EXCEPT ![UsageReq] = Append(@, NewRun(ch[UsageReq].Id))]
                /\ pc' = [pc EXCEPT ![UsageReq] = "exec_refresh"]
                /\ UNCHANGED resp
           ELSE /\ Respond(UsageResult(f.status, f.body))
                /\ UNCHANGED runs
    /\ UNCHANGED <<now, db, issued, codexCredentialRefreshRunning, execVars, sweepVars,
                   loads>>
    /\ UNCHANGED <<tokenVars, routerVars>>

\* Lines 101-104 and 114: the executor returned.
Usage_AfterRefresh ==
    /\ pc[UsageReq] = "exec_ret"
    /\ IF execErr[UsageReq] = "nil"
       THEN /\ pc' = [pc EXCEPT ![UsageReq] = "fetch2"]
            /\ UNCHANGED resp
       ELSE Respond(UsageResult(statusCode, body))
    /\ UNCHANGED <<now, db, issued, codexCredentialRefreshRunning, execVars, sweepVars,
                   statusCode, body, fetchErr, fetches, runs, loads>>
    /\ UNCHANGED <<tokenVars, routerVars>>

\* A retry that sends the token read before the refresh.
RetryTokenStale == TrimSpace(FromJSON(ch[UsageReq].Key).AccessToken)

\* Line 105: the token of the retry is read from the refreshed credential.
RetryToken == creds[UsageReq].AccessToken

\* Lines 105-113: the retry with the refreshed token, then the cache reload
\* (model.ChannelGroup.Load is taken to return).
Usage_Fetch2 ==
    /\ pc[UsageReq] = "fetch2"
    /\ \E f \in FetchResults :
        /\ statusCode' = f.status
        /\ body' = f.body
        /\ fetchErr' = f.err
        /\ fetches' = Append(fetches, [token |-> RetryToken, result |-> f])
        /\ IF f.err
           THEN /\ Respond(Failure("message", "fetch usage failed after refresh"))
                /\ UNCHANGED loads
           ELSE /\ loads' = [loads EXCEPT ![UsageReq] = @ + 1]
                /\ Respond(UsageResult(f.status, f.body))
    /\ UNCHANGED <<now, db, issued, codexCredentialRefreshRunning, execVars, sweepVars,
                   runs>>
    /\ UNCHANGED <<tokenVars, routerVars>>

\* The handler has returned; the worker takes the next request.
Usage_Done ==
    /\ pc[UsageReq] = "responded"
    /\ pc' = [pc EXCEPT ![UsageReq] = "idle"]
    /\ ch' = [ch EXCEPT ![UsageReq] = NoChannel]
    /\ creds' = [creds EXCEPT ![UsageReq] = NoCreds]
    /\ execErr' = [execErr EXCEPT ![UsageReq] = "nil"]
    /\ statusCode' = 0
    /\ body' = NoBody
    /\ fetchErr' = FALSE
    /\ resp' = NoResp
    /\ fetches' = << >>
    /\ runs' = [runs EXCEPT ![UsageReq] = << >>]
    /\ loads' = [loads EXCEPT ![UsageReq] = 0]
    /\ UNCHANGED <<now, db, issued, codexCredentialRefreshRunning, sweepVars>>
    /\ UNCHANGED <<tokenVars, routerVars>>

(***************************************************************************)
(* Manual refresh: RefreshCodexChannelCredential and                       *)
(* RefreshCodexChannelCredentialByID.                                      *)
(***************************************************************************)
\* The checks that end a manual refresh before the executor is called.
ManualRejection(param, getOK) ==
    IF ~param.isInt THEN "invalid channel id"
    ELSE IF ~getOK \/ param.id \notin ChannelIds THEN "get channel failed"
    ELSE LET row == db[param.id]
         IN  IF row.Type # ChannelTypeCodex THEN "channel type is not Codex"
             ELSE IF KeyIsBlank(row.Key) THEN "channel key is empty"
             ELSE IF FromJSONFails(row.Key) THEN "failed to parse credentials"
             ELSE IF TrimSpace(FromJSON(row.Key).RefreshToken) = EmptyString
               THEN "refresh_token is required to refresh credential"
             ELSE "nil"

\* Controller lines 137-146 and RefreshCodexChannelCredentialByID lines
\* 158-189: read the channel and its credential, call the executor.
Manual_Begin ==
    /\ NoRequest
    /\ \E param \in Params, getOK \in BOOLEAN :
        LET rej == ManualRejection(param, getOK)
        IN  IF rej # "nil"
            THEN /\ execErr' = [execErr EXCEPT ![ManualReq] = rej]
                 /\ pc' = [pc EXCEPT ![ManualReq] = "responded"]
                 /\ UNCHANGED <<ch, creds, runs>>
            ELSE /\ ch' = [ch EXCEPT ![ManualReq] =
                        [Id |-> param.id, Key |-> db[param.id].Key]]
                 /\ creds' = [creds EXCEPT ![ManualReq] = FromJSON(db[param.id].Key)]
                 /\ runs' = [runs EXCEPT ![ManualReq] = Append(@, NewRun(param.id))]
                 /\ pc' = [pc EXCEPT ![ManualReq] = "exec_refresh"]
                 /\ UNCHANGED execErr
    /\ UNCHANGED <<now, db, issued, codexCredentialRefreshRunning, sweepVars, reqVars,
                   loads>>
    /\ UNCHANGED <<tokenVars, routerVars>>

\* Controller lines 147-169: the failure response, or the cache reload and
\* the success response.
Manual_AfterRefresh ==
    /\ pc[ManualReq] = "exec_ret"
    /\ loads' = [loads EXCEPT ![ManualReq] = IF execErr[ManualReq] = "nil" THEN @ + 1 ELSE @]
    /\ pc' = [pc EXCEPT ![ManualReq] = "responded"]
    /\ UNCHANGED <<now, db, issued, codexCredentialRefreshRunning, execVars, sweepVars,
                   reqVars, runs>>
    /\ UNCHANGED <<tokenVars, routerVars>>

\* The handler has returned; the worker takes the next request.
Manual_Done ==
    /\ pc[ManualReq] = "responded"
    /\ pc' = [pc EXCEPT ![ManualReq] = "idle"]
    /\ ch' = [ch EXCEPT ![ManualReq] = NoChannel]
    /\ creds' = [creds EXCEPT ![ManualReq] = NoCreds]
    /\ execErr' = [execErr EXCEPT ![ManualReq] = "nil"]
    /\ runs' = [runs EXCEPT ![ManualReq] = << >>]
    /\ loads' = [loads EXCEPT ![ManualReq] = 0]
    /\ UNCHANGED <<now, db, issued, codexCredentialRefreshRunning, sweepVars, reqVars>>
    /\ UNCHANGED <<tokenVars, routerVars>>

ManualStep ==
    \/ Manual_Begin
    \/ Exec_Refresh(ManualReq)
    \/ Exec_Write(ManualReq)
    \/ Manual_AfterRefresh
    \/ Manual_Done

(***************************************************************************)
(* Token codec: common/user-token.go.                                      *)
(*                                                                         *)
(* base64.RawURLEncoding is computed bit for bit.  HMAC-SHA256 is a keyed  *)
(* 16-bit digest, two bytes where the source has 32, so that the encoded   *)
(* signature ends, as in the source, in a character with two unused bits.  *)
(* sqids is a positional encoding over the configured alphabet, padded   *)
(* from that alphabet to the minimum length.                               *)
(***************************************************************************)
Callers == {1, 2}           \* two token calls at a time
CtxIds == 1..MaxContexts
Ids == 0..MaxId
Underscore == "_"

\* The alphabet of base64.RawURLEncoding; B64[v + 1] encodes the sextet v.
B64 ==
    <<"A", "B", "C", "D", "E", "F", "G", "H", "I", "J", "K", "L", "M",
      "N", "O", "P", "Q", "R", "S", "T", "U", "V", "W", "X", "Y", "Z",
      "a", "b", "c", "d", "e", "f", "g", "h", "i", "j", "k", "l", "m",
      "n", "o", "p", "q", "r", "s", "t", "u", "v", "w", "x", "y", "z",
      "0", "1", "2", "3", "4", "5", "6", "7", "8", "9", "-", "_">>

IsB64(c) == \E i \in 1..Len(B64) : B64[i] = c

Sextet(c) == (CHOOSE i \in 1..Len(B64) : B64[i] = c) - 1

\* base64.RawURLEncoding.EncodeToString: three bytes to four characters, a
\* last group of one or two bytes to two or three, no padding.
RECURSIVE EncodeToString(_)
EncodeToString(b) ==
    IF Len(b) = 0 THEN << >>
    ELSE IF Len(b) = 1
      THEN <<B64[(b[1] \div 4) + 1], B64[((b[1] % 4) * 16) + 1]>>
    ELSE IF Len(b) = 2
      THEN LET n == b[1] * 256 + b[2]
           IN  <<B64[(n \div 1024) + 1], B64[((n \div 16) % 64) + 1],
                 B64[((n % 16) * 4) + 1]>>
    ELSE LET n == b[1] * 65536 + b[2] * 256 + b[3]
         IN  <<B64[(n \div 262144) + 1], B64[((n \div 4096) % 64) + 1],
               B64[((n \div 64) % 64) + 1], B64[(n % 64) + 1]>>
             \o EncodeToString(SubSeq(b, 4, Len(b)))

\* The bytes of a run of sextets; the bits a last short group has left over
\* are dropped without being looked at (the encoding is not Strict()).
RECURSIVE DecodeQuanta(_)
DecodeQuanta(v) ==
    IF Len(v) < 2 THEN << >>
    ELSE IF Len(v) = 2
      THEN <<v[1] * 4 + (v[2] \div 16)>>
    ELSE IF Len(v) = 3
      THEN LET n == v[1] * 4096 + v[2] * 64 + v[3]
           IN  <<n \div 1024, (n \div 4) % 256>>
    ELSE LET n == v[1] * 262144 + v[2] * 4096 + v[3] * 64 + v[4]
         IN  <<n \div 65536, (n \div 256) % 256, n % 256>>
             \o DecodeQuanta(SubSeq(v, 5, Len(v)))

\* base64.RawURLEncoding.DecodeString
DecodeString(s) ==
    IF (\E i \in 1..Len(s) : ~IsB64(s[i])) \/ Len(s) % 4 = 1
    THEN [err |-> TRUE, bytes |-> << >>]
    ELSE [err |-> FALSE, bytes |-> DecodeQuanta([i \in 1..Len(s) |-> Sextet(s[i])])]

\* One byte of a string, as a number.
Ord(c) == IF IsB64(c) THEN Sextet(c) + 1 ELSE Len(B64) + 1

RECURSIVE Absorb(_, _)
Absorb(state, data) ==
    IF data = << >> THEN state
    ELSE Absorb((state * 31 + Ord(Head(data))) % 65536, Tail(data))

\* hmac.New(sha256.New, key)
NewHash(key) == [made |-> TRUE, key |-> key, buf |-> << >>]

NoHash == [made |-> FALSE, key |-> << >>, buf |-> << >>]

\* h.Write(p)
Write(ctx, p) == [ctx EXCEPT !.buf = @ \o p]

\* h.Reset()
Reset(ctx) == [ctx EXCEPT !.buf = << >>]

\* h.Sum(nil): the digest of everything written since the last Reset, keyed
\* with the key the context was made with.
Sum(ctx) ==
    LET keyed == (Absorb(7, ctx.key) * 257 + 1) % 65536
        d == Absorb(keyed, ctx.buf)
    IN  <<d \div 256, d % 256>>

\* The alphabet sqids uses when hashids_salt is empty (the source's default is
\* the 62 letters and digits; it has no underscore).
DefaultAlphabet == <<"a", "b", "c">>

\* sqids.New: the alphabet must have three characters, all different.
SqidsNew(alphabet) ==
    LET a == IF alphabet = EmptyString THEN DefaultAlphabet ELSE alphabet
        ok == /\ Len(a) >= 3
              /\ \A i, j \in 1..Len(a) : a[i] = a[j] => i = j
    IN  [ok |-> ok, alphabet |-> IF ok THEN a ELSE << >>]

NilSqids == [ok |-> FALSE, alphabet |-> << >>]

RECURSIVE ToID(_, _)
ToID(n, digits) ==
    LET d == <<digits[(n % Len(digits)) + 1]>>
    IN  IF n < Len(digits) THEN d ELSE ToID(n \div Len(digits), digits) \o d

RECURSIVE ToNumber(_, _)
ToNumber(id, digits) ==
    IF id = << >> THEN 0
    ELSE ToNumber(SubSeq(id, 1, Len(id) - 1), digits) * Len(digits)
         + (CHOOSE i \in 1..Len(digits) : digits[i] = id[Len(id)]) - 1

\* The first place of character c in s, 0 when there is none.
IndexOf(s, c) ==
    IF \E i \in 1..Len(s) : s[i] = c
    THEN CHOOSE i \in 1..Len(s) : s[i] = c /\ \A j \in 1..(i - 1) : s[j] # c
    ELSE 0

\* hashids.Encode: the numbers in the digits of the alphabet, its first
\* character between them, then that character and the alphabet over again
\* up to the minimum length.
SqidsEncode(sq, numbers) ==
    LET sep == sq.alphabet[1]
        digits == Tail(sq.alphabet)
        id == ToID(numbers[1], digits) \o <<sep>> \o ToID(numbers[2], digits)
        pad == hashidsMinLength - Len(id) - 1
    IN  IF Len(id) >= hashidsMinLength THEN id
        ELSE id \o <<sep>>
             \o [i \in 1..pad |-> sq.alphabet[((i - 1) % Len(sq.alphabet)) + 1]]

RECURSIVE DecodeChunks(_, _)
DecodeChunks(id, alphabet) ==
    IF id = << >> THEN << >>
    ELSE LET k == IndexOf(id, alphabet[1])
             chunk == IF k = 0 THEN id ELSE SubSeq(id, 1, k - 1)
             rest == IF k = 0 THEN << >> ELSE SubSeq(id, k + 1, Len(id))
         IN  IF chunk = << >> THEN << >>
             ELSE <<ToNumber(chunk, Tail(alphabet))>> \o DecodeChunks(rest, alphabet)

\* hashids.Decode: nothing for an id with a character outside the alphabet,
\* else the numbers up to the first empty chunk.
SqidsDecode(sq, id) ==
    IF \E i \in 1..Len(id) : \A j \in 1..Len(sq.alphabet) : sq.alphabet[j] # id[i]
    THEN << >>
    ELSE DecodeChunks(id, sq.alphabet)

\* The least of a set of numbers.
First(S) == CHOOSE i \in S : \A j \in S : i <= j

\* Secret resolution that does not know the legacy key token_secret.
resolveUserTokenSecretNoLegacy(cfg, file, session, writeOK) ==
    LET keys == <<cfg.user_token_secret, cfg.session_secret>>
        set == {i \in 1..Len(keys) : TrimSpace(keys[i]) # EmptyString}
        kept == TrimSpace(file.text)
        secret == TrimSpace(session)
    IN  IF set # {} THEN [secret |-> TrimSpace(keys[First(set)]), file |-> file]
        ELSE IF file.exists /\ kept # EmptyString THEN [secret |-> kept, file |-> file]
        ELSE IF secret = EmptyString THEN [secret |-> EmptyString, file |-> file]
        ELSE [secret |-> secret,
              file |-> IF writeOK THEN [exists |-> TRUE, text |-> secret] ELSE file]

\* Secret resolution that does not read the kept secret back.
resolveUserTokenSecretNoFile(cfg, file, session, writeOK) ==
    LET keys == <<cfg.user_token_secret, cfg.token_secret, cfg.session_secret>>
        set == {i \in 1..Len(keys) : TrimSpace(keys[i]) # EmptyString}
        secret == TrimSpace(session)
    IN  IF set # {} THEN [secret |-> TrimSpace(keys[First(set)]), file |-> file]
        ELSE IF secret = EmptyString THEN [secret |-> EmptyString, file |-> file]
        ELSE [secret |-> secret,
              file |-> IF writeOK THEN [exists |-> TRUE, text |-> secret] ELSE file]

\* resolveUserTokenSecret: the first configured key that is not blank, else
\* the secret kept in the file, else config.SessionSecret, which is then
\* written to the file (a failed write is only logged).
resolveUserTokenSecret(cfg, file, session, writeOK) ==
    LET keys == <<cfg.user_token_secret, cfg.token_secret, cfg.session_secret>>
        set == {i \in 1..Len(keys) : TrimSpace(keys[i]) # EmptyString}
        kept == TrimSpace(file.text)
        secret == TrimSpace(session)
    IN  IF set # {} THEN [secret |-> TrimSpace(keys[First(set)]), file |-> file]
        ELSE IF file.exists /\ kept # EmptyString THEN [secret |-> kept, file |-> file]
        ELSE IF secret = EmptyString THEN [secret |-> EmptyString, file |-> file]
        ELSE [secret |-> secret,
              file |-> IF writeOK THEN [exists |-> TRUE, text |-> secret] ELSE file]

\* InitUserToken, called while no token call is running.
InitUserToken ==
    /\ inits < MaxInits
    /\ \A c \in Callers : tpc[c] = "idle"
    /\ \E writeOK \in BOOLEAN :
        LET r == resolveUserTokenSecret(settings, secretFile, SessionSecret, writeOK)
            sq == SqidsNew(TrimSpace(settings.hashids_salt))
        IN  /\ secretFile' = r.file
            /\ IF r.secret = EmptyString
               THEN /\ initErr' = "token secret is not configured"
                    /\ UNCHANGED <<hashids, jwtSecretBytes>>
               ELSE /\ hashids' = IF sq.ok THEN sq ELSE NilSqids
                    /\ jwtSecretBytes' = r.secret
                    /\ initErr' = IF sq.ok THEN "nil" ELSE "sqids"
    /\ inits' = inits + 1
    /\ UNCHANGED <<settings, SessionSecret, hmacCtx, hmacPool, tpc, h, call, wire>>
    /\ UNCHANGED <<coreVars, routerVars>>

\* viper.Set / the environment: the configuration changes between two calls
\* of InitUserToken.
Reconfigure(choices) ==
    /\ inits < MaxInits
    /\ \E cfg \in choices :
        /\ cfg # settings
        /\ settings' = cfg
    /\ UNCHANGED <<SessionSecret, secretFile, hashids, jwtSecretBytes, inits, initErr,
                   hmacCtx, hmacPool, tpc, h, call, wire>>
    /\ UNCHANGED <<coreVars, routerVars>>

\* A token in a client's hands, with what held when it was issued: the
\* config.SessionSecret of the issuing process, the key it was signed with and
\* the secret file of that moment.
NoWire ==
    [valid |-> FALSE, token |-> << >>, tokenID |-> 0, userID |-> 0,
     session |-> << >>, key |-> << >>, file |-> [exists |-> FALSE, text |-> << >>]]

NoCall ==
    [op |-> "none", tokenID |-> 0, userID |-> 0, kind |-> "none", base |-> NoWire,
     token |-> << >>, payload |-> << >>, signature |-> << >>,
     signedOver |-> << >>, signedKey |-> << >>, err |-> "none", ret |-> << >>]

\* GenerateToken, line 92: the payload; a nil hashids panics.
Gen_Begin(c, ts, us) ==
    /\ tpc[c] = "idle"
    /\ \E t \in ts, u \in us :
        LET args == [NoCall EXCEPT !.op = "generate", !.tokenID = t, !.userID = u]
        IN  IF ~hashids.ok
            THEN /\ call' = [call EXCEPT ![c] = [args EXCEPT !.err = "panic"]]
                 /\ tpc' = [tpc EXCEPT ![c] = "returned"]
            ELSE /\ call' = [call EXCEPT ![c] =
                        [args EXCEPT !.payload = SqidsEncode(hashids, <<t, u>>)]]
                 /\ tpc' = [tpc EXCEPT ![c] = "get"]
    /\ UNCHANGED <<settings, SessionSecret, secretFile, hashids, jwtSecretBytes, inits,
                   initErr, hmacCtx, hmacPool, h, wire>>
    /\ UNCHANGED <<coreVars, routerVars>>

\* A character put in the place of c: the next one of the base64 alphabet,
\* and one outside it.
Tampers(c) == {B64[((Sextet(c) + 1) % Len(B64)) + 1], "!"}

\* Tokens that were never issued.
Garbage == {<<"x">>, <<"x", Underscore, "A", "A", "A">>}

\* What a client sends: the issued token, the issued token with one character
\* of its signature replaced, the issued token cut before its first
\* underscore, or a token that was never issued.
Presented ==
    LET k == IndexOf(wire.token, Underscore)
        places == UNION {{<<j, x>> : x \in Tampers(wire.token[j])} :
                           j \in (k + 1)..Len(wire.token)}
    IN  IF ~wire.valid THEN [kind : {"garbage"}, token : Garbage]
        ELSE {[kind |-> "issued", token |-> wire.token],
              [kind |-> "cut", token |-> SubSeq(wire.token, 1, k - 1)]}
             \cup {[kind |-> "tampered", token |-> [wire.token EXCEPT ![jx[1]] = jx[2]]] :
                     jx \in places}
             \cup [kind : {"garbage"}, token : Garbage]

Kinds == {"issued", "cut", "tampered", "garbage"}

\* ValidateToken, lines 110-115: the token is split at its first underscore.
Val_Begin(c, kinds) ==
    /\ tpc[c] = "idle"
    /\ \E p \in {q \in Presented : q.kind \in kinds} :
        LET k == IndexOf(p.token, Underscore)
            args == [NoCall EXCEPT !.op = "validate", !.kind = p.kind, !.base = wire,
                                   !.token = p.token]
        IN  IF k = 0
            THEN /\ call' = [call EXCEPT ![c] = [args EXCEPT !.err = "invalid token"]]
                 /\ tpc' = [tpc EXCEPT ![c] = "returned"]
            ELSE /\ call' = [call EXCEPT ![c] =
                        [args EXCEPT !.payload = SubSeq(p.token, 1, k - 1),
                                     !.signature = SubSeq(p.token, k + 1, Len(p.token))]]
                 /\ tpc' = [tpc EXCEPT ![c] = "get"]
    /\ UNCHANGED <<settings, SessionSecret, secretFile, hashids, jwtSecretBytes, inits,
                   initErr, hmacCtx, hmacPool, h, wire>>
    /\ UNCHANGED <<coreVars, routerVars>>

\* hmacPool.Get(): a pooled context, or a new one keyed with jwtSecretBytes as
\* it is now.
Token_Get(c) ==
    /\ tpc[c] = "get"
    /\ \/ \E i \in hmacPool :
            /\ h' = [h EXCEPT ![c] = i]
            /\ hmacPool' = hmacPool \ {i}
            /\ UNCHANGED hmacCtx
       \/ \E i \in CtxIds :
            /\ ~hmacCtx[i].made
            /\ \A j \in CtxIds : j < i => hmacCtx[j].made
            /\ hmacCtx' = [hmacCtx EXCEPT ![i] = NewHash(jwtSecretBytes)]
            /\ h' = [h EXCEPT ![c] = i]
            /\ UNCHANGED hmacPool
    /\ tpc' = [tpc EXCEPT ![c] = "write"]
    /\ UNCHANGED <<settings, SessionSecret, secretFile, hashids, jwtSecretBytes, inits,
                   initErr, call, wire>>
    /\ UNCHANGED <<coreVars, routerVars>>

\* h.Write of the payload (lines 102 and 123).
Token_Write(c) ==
    /\ tpc[c] = "write"
    /\ hmacCtx' = [hmacCtx EXCEPT ![h[c]] = Write(@, call[c].payload)]
    /\ tpc' = [tpc EXCEPT ![c] = IF call[c].op = "generate" THEN "sum" ELSE "check"]
    /\ UNCHANGED <<settings, SessionSecret, secretFile, hashids, jwtSecretBytes, inits,
                   initErr, hmacPool, h, call, wire>>
    /\ UNCHANGED <<coreVars, routerVars>>

\* GenerateToken, lines 103-106: the signature and the token.
Gen_Sum(c) ==
    /\ tpc[c] = "sum"
    /\ LET signature == EncodeToString(Sum(hmacCtx[h[c]]))
       IN  call' = [call EXCEPT ![c] =
                [@ EXCEPT !.signature = signature,
                          !.token = call[c].payload \o <<Underscore>> \o signature,
                          !.signedOver = hmacCtx[h[c]].buf,
                          !.signedKey = hmacCtx[h[c]].key,
                          !.err = "nil"]]
    /\ tpc' = [tpc EXCEPT ![c] = "release"]
    /\ UNCHANGED <<settings, SessionSecret, secretFile, hashids, jwtSecretBytes, inits,
                   initErr, hmacCtx, hmacPool, h, wire>>
    /\ UNCHANGED <<coreVars, routerVars>>

\* ValidateToken, lines 124-140: the signature is decoded and compared, then
\* the payload is decoded; a nil hashids panics.
Val_Check(c) ==
    /\ tpc[c] = "check"
    /\ LET expectedSignature == Sum(hmacCtx[h[c]])
           received == DecodeString(call[c].signature)
           numbers == SqidsDecode(hashids, call[c].payload)
           seen == [call[c] EXCEPT !.signedOver = hmacCtx[h[c]].buf,
                                   !.signedKey = hmacCtx[h[c]].key]
       IN  call' = [call EXCEPT ![c] =
                IF received.err THEN [seen EXCEPT !.err = "signature decode failed"]
                ELSE IF received.bytes # expectedSignature
                  THEN [seen EXCEPT !.err = "signature mismatch"]
                ELSE IF ~hashids.ok THEN [seen EXCEPT !.err = "panic"]
                ELSE IF Len(numbers) # 2 THEN [seen EXCEPT !.err = "invalid token"]
                ELSE [seen EXCEPT !.err = "nil", !.ret = numbers]]
    /\ tpc' = [tpc EXCEPT ![c] = "release"]
    /\ UNCHANGED <<settings, SessionSecret, secretFile, hashids, jwtSecretBytes, inits,
                   initErr, hmacCtx, hmacPool, h, wire>>
    /\ UNCHANGED <<coreVars, routerVars>>

\* A deferred function that puts the context back as it is.
Token_ReleaseNoReset(c) ==
    /\ tpc[c] = "release"
    /\ hmacPool' = hmacPool \cup {h[c]}
    /\ h' = [h EXCEPT ![c] = 0]
    /\ tpc' = [tpc EXCEPT ![c] = "returned"]
    /\ UNCHANGED <<settings, SessionSecret, secretFile, hashids, jwtSecretBytes, inits,
                   initErr, hmacCtx, call, wire>>
    /\ UNCHANGED <<coreVars, routerVars>>

\* The deferred function of both calls (lines 98-101 and 118-121): Reset, then
\* Put.
Token_Release(c) ==
    /\ tpc[c] = "release"
    /\ hmacCtx' = [hmacCtx EXCEPT ![h[c]] = Reset(@)]
    /\ hmacPool' = hmacPool \cup {h[c]}
    /\ h' = [h EXCEPT ![c] = 0]
    /\ tpc' = [tpc EXCEPT ![c] = "returned"]
    /\ UNCHANGED <<settings, SessionSecret, secretFile, hashids, jwtSecretBytes, inits,
                   initErr, call, wire>>
    /\ UNCHANGED <<coreVars, routerVars>>

\* The call has returned; a generated token goes out to the client.
Token_Done(c) ==
    /\ tpc[c] = "returned"
    /\ tpc' = [tpc EXCEPT ![c] = "idle"]
    /\ call' = [call EXCEPT ![c] = NoCall]
    /\ wire' = IF call[c].op = "generate" /\ call[c].err = "nil"
               THEN [valid |-> TRUE, token |-> call[c].token,
                     tokenID |-> call[c].tokenID, userID |-> call[c].userID,
                     session |-> SessionSecret, key |-> call[c].signedKey,
                     file |-> secretFile]
               ELSE wire
    /\ UNCHANGED <<settings, SessionSecret, secretFile, hashids, jwtSecretBytes, inits,
                   initErr, hmacCtx, hmacPool, h>>
    /\ UNCHANGED <<coreVars, routerVars>>

\* A step of token call c, for clients that ask for tokens of the ids ts and us
\* and present tokens of the given kinds.
TokenStep(c, ts, us, kinds) ==
    \/ Gen_Begin(c, ts, us)
    \/ Val_Begin(c, kinds)
    \/ Token_Get(c)
    \/ Token_Write(c)
    \/ Gen_Sum(c)
    \/ Val_Check(c)
    \/ Token_Release(c)
    \/ Token_Done(c)

\* The values config.SessionSecret takes in successive processes: a new
\* random one at every start.
FreshSessions == <<<<"p">>, <<"q">>, <<"r">>, <<"s">>>>

\* The process ends and a new one starts: what was in memory is gone,
\* config.SessionSecret is new, the configuration, the secret file and the
\* tokens clients hold are what they were, and the new process calls
\* InitUserToken before it serves.
Restart ==
    /\ inits < MaxInits
    /\ \E i \in 1..(Len(FreshSessions) - 1), writeOK \in BOOLEAN :
        LET r == resolveUserTokenSecret(settings, secretFile, FreshSessions[i + 1], writeOK)
            sq == SqidsNew(TrimSpace(settings.hashids_salt))
        IN  /\ SessionSecret = FreshSessions[i]
            /\ SessionSecret' = FreshSessions[i + 1]
            /\ secretFile' = r.file
            /\ IF r.secret = EmptyString
               THEN /\ initErr' = "token secret is not configured"
                    /\ hashids' = NilSqids
                    /\ jwtSecretBytes' = << >>
               ELSE /\ hashids' = IF sq.ok THEN sq ELSE NilSqids
                    /\ jwtSecretBytes' = r.secret
                    /\ initErr' = IF sq.ok THEN "nil" ELSE "sqids"
    /\ inits' = inits + 1
    /\ hmacCtx' = [i \in CtxIds |-> NoHash]
    /\ hmacPool' = {}
    /\ tpc' = [c \in Callers |-> "idle"]
    /\ h' = [c \in Callers |-> 0]
    /\ call' = [c \in Callers |-> NoCall]
    /\ UNCHANGED <<settings, wire>>
    /\ UNCHANGED <<coreVars, routerVars>>

(***************************************************************************)
(* Path normalisation middleware: router/main.go, urlNormalize.            *)
(*                                                                         *)
(* A request goes through the engine's handler chain, whose first handler  *)
(* is urlNormalize; engine.HandleContext sends the request through the     *)
(* chain again, urlNormalize included.                                     *)
(***************************************************************************)
Slash == "/"

V1 == <<Slash, "v", "1">>

\* The segments requests are made of.
Segments == {<<"v", "1">>, <<"v", "1", "b", "e", "t", "a">>, <<"c", "h", "a", "t">>}

RECURSIVE PathsOf(_)
PathsOf(n) ==
    IF n = 0 THEN {<< >>}
    ELSE {<<Slash>> \o s \o p : s \in Segments, p \in PathsOf(n - 1)}

RequestPaths == UNION {PathsOf(n) : n \in 1..MaxSegments}

\* The escaped spelling of a path: every "a" written %61.
RECURSIVE Escaped(_)
Escaped(p) ==
    IF p = << >> THEN << >>
    ELSE (IF Head(p) = "a" THEN <<"%", "6", "1">> ELSE <<Head(p)>>) \o Escaped(Tail(p))

\* net/url's decoding of the request line into URL.Path.
RECURSIVE Unescape(_)
Unescape(u) ==
    IF u = << >> THEN << >>
    ELSE IF Len(u) >= 3 /\ SubSeq(u, 1, 3) = <<"%", "6", "1">>
         THEN <<"a">> \o Unescape(SubSeq(u, 4, Len(u)))
         ELSE <<Head(u)>> \o Unescape(Tail(u))

RequestLines == RequestPaths \cup {Escaped(p) : p \in RequestPaths}

\* strings.HasPrefix and strings.TrimPrefix
HasPrefix(s, prefix) ==
    Len(s) >= Len(prefix) /\ SubSeq(s, 1, Len(prefix)) = prefix

TrimPrefix(s, prefix) ==
    IF HasPrefix(s, prefix) THEN SubSeq(s, Len(prefix) + 1, Len(s)) ELSE s

\* for strings.HasPrefix(path, "/v1/v1") { path = strings.TrimPrefix(path, "/v1") }
RECURSIVE StripV1(_)
StripV1(p) ==
    IF HasPrefix(p, V1 \o V1) THEN StripV1(TrimPrefix(p, V1)) ELSE p

\* A request line reaches the engine: URL.Path is the decoded path, and
\* URL.RawPath is set only where the line is not the path's own encoding.
Request_Arrive(line) ==
    /\ rpc = "idle"
    /\ rpc' = "chain"
    /\ path' = Unescape(line)
    /\ rawPath' = IF Unescape(line) = line THEN EmptyString ELSE line
    /\ arrived' = Unescape(line)
    /\ dispatches' = 0
    /\ served' = << >>
    /\ UNCHANGED <<coreVars, tokenVars>>

\* urlNormalize on a path with the prefix: the path and a non-empty raw
\* path are rewritten and the request is handed to engine.HandleContext,
\* which runs the chain on it again.
urlNormalize_Rewrite ==
    /\ rpc = "chain"
    /\ StripV1(path) # path
    /\ path' = StripV1(path)
    /\ rawPath' = IF rawPath # EmptyString THEN StripV1(rawPath) ELSE rawPath
    /\ dispatches' = dispatches + 1
    /\ rpc' = "chain"
    /\ UNCHANGED <<arrived, served>>
    /\ UNCHANGED <<coreVars, tokenVars>>

\* urlNormalize on any other path: c.Next() hands the request on.
urlNormalize_Next ==
    /\ rpc = "chain"
    /\ StripV1(path) = path
    /\ served' = Append(served, path)
    /\ rpc' = "handled"
    /\ UNCHANGED <<path, rawPath, arrived, dispatches>>
    /\ UNCHANGED <<coreVars, tokenVars>>

\* The chain returns (after c.Abort() where the request was re-dispatched).
Request_Done ==
    /\ rpc = "handled"
    /\ rpc' = "idle"
    /\ UNCHANGED <<path, rawPath, arrived, dispatches, served>>
    /\ UNCHANGED <<coreVars, tokenVars>>

(***************************************************************************)
(* Initial states of the token codec and of the router.                    *)
(***************************************************************************)
NoSettings ==
    [user_token_secret |-> EmptyString, token_secret |-> EmptyString,
     session_secret |-> EmptyString, hashids_salt |-> EmptyString]

NoFile == [exists |-> FALSE, text |-> EmptyString]

\* The process has started and InitUserToken has not been called.
TokenStart(choices, sessions, files) ==
    /\ settings \in choices
    /\ SessionSecret \in sessions
    /\ secretFile \in files
    /\ hashids = NilSqids
    /\ jwtSecretBytes = << >>
    /\ inits = 0
    /\ initErr = "none"
    /\ hmacCtx = [i \in CtxIds |-> NoHash]
    /\ hmacPool = {}
    /\ tpc = [c \in Callers |-> "idle"]
    /\ h = [c \in Callers |-> 0]
    /\ call = [c \in Callers |-> NoCall]
    /\ wire = NoWire

TokenIdle == TokenStart({NoSettings}, {EmptyString}, {NoFile})

\* InitUserToken has returned nil under configuration cfg, whose secret is
\* user_token_secret, and no token call has been made.
TokenReady(cfg) ==
    /\ settings = cfg
    /\ SessionSecret = <<"p">>
    /\ secretFile = NoFile
    /\ hashids = SqidsNew(TrimSpace(cfg.hashids_salt))
    /\ jwtSecretBytes = TrimSpace(cfg.user_token_secret)
    /\ inits = 1
    /\ initErr = "nil"
    /\ hmacCtx = [i \in CtxIds |-> NoHash]
    /\ hmacPool = {}
    /\ tpc = [c \in Callers |-> "idle"]
    /\ h = [c \in Callers |-> 0]
    /\ call = [c \in Callers |-> NoCall]
    /\ wire = NoWire

RouterIdle ==
    /\ rpc = "idle"
    /\ path = << >>
    /\ rawPath = << >>
    /\ arrived = << >>
    /\ dispatches = 0
    /\ served = << >>

CoreIdle == InitWith(GuardRows)

\* Configurations of the token calls: the default alphabet, one
\* with an underscore, and one sqids refuses.
TokenSettings ==
    [user_token_secret : {<<"k", "1">>}, token_secret : {EmptyString},
     session_secret : {EmptyString},
     hashids_salt : {EmptyString, <<"a", "b", Underscore>>, <<"a", "b">>}]

\* Configurations of the secret resolution: every key set, blank or unset.
SecretSettings ==
    [user_token_secret : {EmptyString, <<Space>>, <<"u">>},
     token_secret : {EmptyString, <<"t", Space>>},
     session_secret : {EmptyString, <<"s">>},
     hashids_salt : {EmptyString, <<"a", "b">>}]

SecretFiles == {NoFile, [exists |-> TRUE, text |-> <<"f">>],
                [exists |-> TRUE, text |-> <<Space>>]}

SessionSecrets == {EmptyString, <<"p">>}

(***************************************************************************)
(* Specifications.                                                         *)
(***************************************************************************)
SweepStep(s) ==
    \/ Sweep_Enter(s)
    \/ Sweep_Query(s)
    \/ Sweep_Examine(s)
    \/ Exec_Refresh(s)
    \/ Exec_Write(s)
    \/ Sweep_AfterRefresh(s)
    \/ Sweep_AfterLoop(s)
    \/ Sweep_Return(s)

UsageStep ==
    \/ Usage_Begin
    \/ Usage_Fetch1
    \/ Exec_Refresh(UsageReq)
    \/ Exec_Write(UsageReq)
    \/ Usage_AfterRefresh
    \/ Usage_Fetch2
    \/ Usage_Done

\* One scheduler invocation at a time, over every kind of channel.
InitSweep == InitWith(SweepRows) /\ TokenIdle /\ RouterIdle

NextSweep == Tick \/ SweepStep(1)

SpecSweep == InitSweep /\ [][NextSweep]_vars

\* Concurrent scheduler invocations.
InitGuard == InitWith(GuardRows) /\ TokenIdle /\ RouterIdle

NextGuard == \E s \in Sweepers : SweepStep(s) \/ Sweep_SkipReturn(s)

SpecGuard == InitGuard /\ [][NextGuard]_vars

\* The steps of an invocation that holds the guard.  The goroutine keeps
\* running and every store and upstream call returns, so a step that stays
\* possible is taken.
SweepProgress(s) ==
    \/ Sweep_Query(s)
    \/ Sweep_Examine(s)
    \/ Exec_Refresh(s)
    \/ Exec_Write(s)
    \/ Sweep_AfterRefresh(s)
    \/ Sweep_AfterLoop(s)
    \/ Sweep_Return(s)

\* The invocations under that scheduling; channel 1 is due and the other
\* channels have no key.
InitRelease ==
    /\ InitWith(GuardRows \cup {Row(ChannelTypeCodex, 1, RawKey(EmptyString))})
    /\ \A c \in ChannelIds : db[c] \in GuardRows <=> c = 1
    /\ TokenIdle
    /\ RouterIdle

SpecGuardFair ==
    /\ InitRelease
    /\ [][NextGuard]_vars
    /\ \A s \in Sweepers : WF_vars(SweepProgress(s))


\* One invocation over channels of every type and status.
InitPages == InitWith(PageRows) /\ TokenIdle /\ RouterIdle

NextPages == SweepStep(1)

SpecPages == InitPages /\ [][NextPages]_vars

\* Usage requests.
InitUsage == InitWith(UsageRows) /\ TokenIdle /\ RouterIdle

NextUsage == UsageStep

SpecUsage == InitUsage /\ [][NextUsage]_vars

\* Token calls one after another, before and after InitUserToken.
InitToken == CoreIdle /\ TokenStart(TokenSettings, {<<"p">>}, {NoFile}) /\ RouterIdle

NextToken == InitUserToken \/ TokenStep(1, Ids, Ids, Kinds)

SpecToken == InitToken /\ [][NextToken]_vars

\* Two concurrent token calls after InitUserToken, under the default alphabet.
InitPool ==
    /\ CoreIdle
    /\ \E cfg \in TokenSettings : cfg.hashids_salt = EmptyString /\ TokenReady(cfg)
    /\ RouterIdle

NextPool == \E c \in Callers : TokenStep(c, {0, MaxId}, {0}, {"issued", "garbage"})

SpecPool == InitPool /\ [][NextPool]_vars

\* Secret resolution alone.
InitSecret == CoreIdle /\ TokenStart(SecretSettings, SessionSecrets, SecretFiles) /\ RouterIdle

NextSecret == InitUserToken \/ Reconfigure(SecretSettings)

SpecSecret == InitSecret /\ [][NextSecret]_vars

\* One scheduler invocation next to usage requests and manual refreshes;
\* channel 1 is due and the other channels have no key.
InitCross ==
    /\ InitWith(GuardRows \cup {Row(ChannelTypeCodex, 1, RawKey(EmptyString))})
    /\ \A c \in ChannelIds : db[c] \in GuardRows <=> c = 1
    /\ TokenIdle
    /\ RouterIdle

NextCross == SweepStep(1) \/ UsageStep \/ ManualStep

SpecCross == InitCross /\ [][NextCross]_vars

\* Configurations of the restarts: no key configured (unset or blank), or
\* user_token_secret set; the default alphabet.
RestartSettings ==
    [user_token_secret : {EmptyString, <<Space>>, <<"u">>}, token_secret : {EmptyString},
     session_secret : {EmptyString}, hashids_salt : {EmptyString}]

\* Successive processes over one secret file.
InitRestart ==
    /\ CoreIdle
    /\ TokenStart(RestartSettings, {FreshSessions[1]}, SecretFiles)
    /\ RouterIdle

NextRestart ==
    \/ InitUserToken
    \/ Restart
    \/ TokenStep(1, {0, MaxId}, {0}, {"issued"})

SpecRestart == InitRestart /\ [][NextRestart]_vars

\* One request at a time through the handler chain.
InitRouter == CoreIdle /\ TokenIdle /\ RouterIdle

NextRouter ==
    \/ \E line \in RequestLines : Request_Arrive(line)
    \/ urlNormalize_Rewrite
    \/ urlNormalize_Next
    \/ Request_Done

SpecRouter == InitRouter /\ [][NextRouter]_vars

\* The invocations of the scheduler next to the requests.
Init == InitWith(GuardRows) /\ TokenIdle /\ RouterIdle

Next == NextGuard \/ UsageStep \/ ManualStep

Spec == Init /\ [][Next]_vars

(***************************************************************************)
(* Properties.                                                             *)
(***************************************************************************)
\* An invocation is past the guard from its successful swap to its return.
PastGuard(s) == pc[s] \notin {"idle", "skipped"}

Holders == {s \in Sweepers : PastGuard(s)}

\* What an invocation could touch besides its own position.
skipFrame == <<now, db, issued, codexCredentialRefreshRunning, execVars, sweepVars,
               reqVars, runs, loads>>

\* C1: at most one invocation of RunCodexCredentialAutoRefresh is past the
\* guard at any time, and the guard is set exactly while one is; an invocation
\* that finds the guard set goes straight to its return and back to idle, and
\* neither of its two steps queries the store, calls the executor, writes the
\* store or changes the guard.
C1_SingleFlight ==
    [][ /\ Cardinality(Holders') <= 1
        /\ codexCredentialRefreshRunning' <=> Holders' # {}
        /\ \A s \in Sweepers :
            /\ (pc[s] = "idle" /\ codexCredentialRefreshRunning /\ pc'[s] # "idle")
                  => (pc'[s] = "skipped" /\ UNCHANGED skipFrame)
            /\ (pc[s] = "skipped" /\ pc'[s] # "skipped")
                  => (pc'[s] = "idle" /\ UNCHANGED skipFrame)
      ]_vars

\* An invocation is being turned away while another one is refreshing.
C1_Witness ==
    \E s, t \in Sweepers :
        pc[s] = "skipped" /\ pc[t] = "exec_refresh" /\ codexCredentialRefreshRunning

\* The step in which sweep s examines the channel at its loop index.
ExamineStep(s) == pc[s] = "examine" /\ scanned'[s] = scanned[s] + 1

\* A key that parses to a credential with a refresh token.
Refreshable(k) == k.json /\ TrimSpace(k.c.RefreshToken) # EmptyString

RunsFor(p, id) == {i \in 1..Len(runs[p]) : runs[p][i].id = id}

\* C2: when a sweep examines a channel whose credential parses and has a
\* refresh token, it does not call the executor if expiresAt is more than 24
\* hours after the clock at that moment, and it calls the executor if
\* expiresAt is at most 24 hours after it or already past; the executor is
\* called from nowhere else, so such a channel has exactly one call in the
\* sweep when it was due and none when it was not.
C2_ThresholdSelection ==
    [][ \A s \in Sweepers :
          /\ Len(runs'[s]) > Len(runs[s]) => ExamineStep(s)
          /\ ExamineStep(s) =>
               LET cur == channels[s][idx[s]]
                   called == /\ runs'[s] = Append(runs[s], NewRun(cur.Id))
                             /\ pc'[s] = "exec_refresh"
                             /\ Cardinality(RunsFor(s, cur.Id)') = 1
               IN  Refreshable(cur.Key) =>
                     IF cur.Key.c.ExpiresAt - now > codexCredentialRefreshThreshold
                     THEN runs'[s] = runs[s] /\ pc'[s] # "exec_refresh"
                     ELSE called
      ]_vars

\* A sweep has ended that left a credential 25 hours from expiry alone and
\* refreshed one exactly 24 hours from expiry.
C2_Witness ==
    \E s \in Sweepers, c, d \in ChannelIds :
        /\ pc[s] = "done"
        /\ examined[s][c].n = 1 /\ Refreshable(examined[s][c].key)
        /\ examined[s][c].key.c.ExpiresAt - examined[s][c].at
              = codexCredentialRefreshThreshold + 1
        /\ RunsFor(s, c) = {}
        /\ examined[s][d].n = 1 /\ Refreshable(examined[s][d].key)
        /\ examined[s][d].key.c.ExpiresAt - examined[s][d].at
              = codexCredentialRefreshThreshold
        /\ Cardinality(RunsFor(s, d)) = 1

\* The examined credentials of sweep s that have a refresh token and no expiry.
ZeroExpiry(s) ==
    {c \in ChannelIds : /\ examined[s][c].n >= 1
                        /\ Refreshable(examined[s][c].key)
                        /\ IsZero(examined[s][c].key.c.ExpiresAt)}

\* C3 as stated: a sweep never calls the executor for a credential whose
\* expiresAt is the zero value.
C3_ZeroExpiryNeverRefreshed ==
    \A s \in Sweepers : \A c \in ZeroExpiry(s) : RunsFor(s, c) = {}

\* C3, amended: a credential whose expiresAt is the zero value and whose
\* refresh token is not empty is always due: a sweep that examines it calls
\* the executor for it exactly once, whatever the clock.
C3_ZeroExpiryAlwaysRefreshed ==
    \A s \in Sweepers : \A c \in ZeroExpiry(s) :
        Cardinality(RunsFor(s, c)) = 1 /\ examined[s][c].n = 1

\* A sweep has refreshed and persisted a credential that had no expiry.
C3_Witness ==
    \E s \in Sweepers : \E c \in ZeroExpiry(s) :
        \E i \in RunsFor(s, c) : runs[s][i].result = "ok" /\ now > Now0

\* A key the sweep must skip: blank, not a credential, or without refresh token.
Unrefreshable(k) ==
    \/ ~k.json /\ TrimSpace(k.text) = EmptyString
    \/ ~k.json
    \/ k.json /\ TrimSpace(k.c.RefreshToken) = EmptyString

RECURSIVE SumExamined(_, _)
SumExamined(s, c) ==
    IF c = 0 THEN 0 ELSE examined[s][c].n + SumExamined(s, c - 1)

\* C4: a channel whose key is blank, does not parse, or has an empty refresh
\* token is counted in scanned, gets no executor call and no store write from
\* the sweep, is counted in neither refreshed nor failed, and its persisted
\* key stays what the sweep read.
C4_SkippedUntouched ==
    \A s \in Sweepers :
        /\ scanned[s] = SumExamined(s, NumChannels)
        /\ refreshed[s] + failed[s] <= Len(runs[s])
        /\ \A c \in ChannelIds :
             (examined[s][c].n >= 1 /\ Unrefreshable(examined[s][c].key)) =>
                 /\ RunsFor(s, c) = {}
                 /\ db[c].Key = examined[s][c].key

\* A finished sweep skipped one channel and refreshed another.
C4_Witness ==
    \E s \in Sweepers, c, d \in ChannelIds :
        /\ pc[s] = "done"
        /\ examined[s][c].n = 1 /\ Unrefreshable(examined[s][c].key)
        /\ examined[s][c].key.json
        /\ \E i \in RunsFor(s, d) : runs[s][i].wrote
        /\ scanned[s] = 2

\* The candidates of sweep s: examined, refreshable and due when examined.
Candidates(s) ==
    {c \in ChannelIds :
        /\ examined[s][c].n >= 1
        /\ Refreshable(examined[s][c].key)
        /\ examined[s][c].key.c.ExpiresAt - examined[s][c].at
              <= codexCredentialRefreshThreshold}

EnabledCodex == {c \in ChannelIds : db[c].Type = ChannelTypeCodex /\ db[c].Status = 1}

Errors(p) == {i \in 1..Len(runs[p]) : runs[p][i].result \notin {"ok", "running"}}

\* C5: a sweep whose store queries all succeeded has examined every enabled
\* Codex channel, has called the executor once for each of its N candidates
\* whichever of them failed, and ends with failed equal to the number of
\* executor calls that returned an error and refreshed + failed = N.
C5_PartialFailureIsolation ==
    \A s \in Sweepers :
        pc[s] = "done" =>
            /\ \A c \in EnabledCodex : examined[s][c].n = 1
            /\ \A c \in Candidates(s) : Cardinality(RunsFor(s, c)) = 1
            /\ Len(runs[s]) = Cardinality(Candidates(s))
            /\ failed[s] = Cardinality(Errors(s))
            /\ refreshed[s] + failed[s] = Cardinality(Candidates(s))

\* A finished sweep whose first candidate failed and whose second succeeded.
C5_Witness ==
    \E s \in Sweepers :
        /\ pc[s] = "done"
        /\ Len(runs[s]) = 2
        /\ runs[s][1].result = "refresh_failed"
        /\ runs[s][2].result = "ok"
        /\ failed[s] = 1 /\ refreshed[s] = 1

Succeeded(p) == {i \in 1..Len(runs[p]) : runs[p][i].result = "ok"}

\* C6: a sweep in which an executor call succeeded has called
\* model.ChannelGroup.Load by the time it is about to return, also when it
\* returns early because a later store query failed.
C6_LoadAfterRefresh ==
    \A s \in Sweepers :
        (pc[s] \in {"done", "aborted"} /\ Succeeded(s) # {}) => loads[s] >= 1

\* The credential a worker's executor run started from.
Before(p) == FromJSON(ch[p].Key)

\* The in-memory credential carries tokens the run obtained.
InMemoryRefreshed(p) ==
    /\ creds[p].AccessToken # Before(p).AccessToken
    /\ creds[p].RefreshToken # Before(p).RefreshToken

\* C7: the executor reaches its store write only with a credential that
\* creds.Refresh has replaced; when Refresh fails, in whichever way, the
\* executor returns an error without writing, and the channel's persisted key
\* is the one the run started from; the store changes in no other step than
\* the successful write of a refreshed credential.
C7_WriteOnlyAfterRefresh ==
    [][ \A p \in Procs :
          /\ pc'[p] = "exec_write" => InMemoryRefreshed(p)'
          /\ (pc[p] = "exec_refresh" /\ pc'[p] = "exec_ret") =>
                /\ execErr'[p] = "token refresh failed"
                /\ ~Last(runs'[p]).wrote
                /\ db' = db
          /\ (db' # db /\ pc[p] # pc'[p]) =>
                /\ pc[p] = "exec_write" /\ InMemoryRefreshed(p)
                /\ db' = [db EXCEPT ![ch[p].Id].Key = ToJSON(creds[p])]
      ]_vars

\* An executor run has returned because the refresh failed.
C7_Witness ==
    \E p \in Procs :
        /\ pc[p] = "exec_ret"
        /\ execErr[p] = "token refresh failed"
        /\ db[ch[p].Id].Key = ch[p].Key

\* The run has left the serialized in-memory credential in the channel's key.
PersistedRefreshed(p) ==
    /\ Last(runs[p]).wrote
    /\ Last(runs[p]).written = ToJSON(creds[p])

\* C8 as stated: when an executor run has returned, the in-memory credential
\* and the persisted key both reflect the refresh or neither does.
C8_BothOrNeither ==
    \A p \in Procs :
        pc[p] = "exec_ret" => (InMemoryRefreshed(p) <=> PersistedRefreshed(p))

\* C8, amended: when an executor run has returned success, the in-memory
\* credential carries the new tokens and the run has written its
\* serialization to the channel's key; when it has returned because Refresh
\* failed, the in-memory credential carries the old tokens and the run has
\* written nothing; when it has returned because UpdateChannelKey failed, the
\* in-memory credential carries the new tokens and the run has written
\* nothing.
C8_BothOrNeitherUnlessWriteFails ==
    \A p \in Procs :
        pc[p] = "exec_ret" =>
            /\ execErr[p] \in {"nil", "token refresh failed", "failed to update channel key"}
            /\ execErr[p] = "nil" =>
                  InMemoryRefreshed(p) /\ PersistedRefreshed(p)
            /\ execErr[p] = "token refresh failed" =>
                  ~InMemoryRefreshed(p) /\ ~Last(runs[p]).wrote
            /\ execErr[p] = "failed to update channel key" =>
                  InMemoryRefreshed(p) /\ ~Last(runs[p]).wrote

\* A run has returned with its write failed, after an earlier run of the same
\* sweep had succeeded.
C8_Witness ==
    \E s \in Sweepers :
        /\ pc[s] = "exec_ret"
        /\ execErr[s] = "failed to update channel key"
        /\ Len(runs[s]) = 2
        /\ runs[s][1].result = "ok"
        /\ db[ch[s].Id].Key = ch[s].Key

HasStatus(f) == ~f.err

\* C9: a usage request makes at most two upstream fetches and at most one
\* executor run; when its first fetch returned 401 or 403 and the credential
\* has a refresh token, it has run the executor exactly once by the time it
\* responds; when that run succeeded it has fetched exactly once more, with
\* the refreshed access token, and if the retry returned a status, that
\* status and body are what the response carries.
C9_ReauthFlow ==
    /\ Len(fetches) <= 2
    /\ Len(runs[UsageReq]) <= 1
    /\ pc[UsageReq] = "responded" /\ Len(fetches) >= 1 =>
         LET f1 == fetches[1].result
             reauth == /\ HasStatus(f1)
                       /\ f1.status \in {StatusUnauthorized, StatusForbidden}
                       /\ TrimSpace(Before(UsageReq).RefreshToken) # EmptyString
         IN  /\ reauth <=> Len(runs[UsageReq]) = 1
             /\ Len(fetches) = 2 <=> Succeeded(UsageReq) # {}
             /\ Len(fetches) = 2 =>
                  /\ fetches[2].token = FromJSON(Last(runs[UsageReq]).written).AccessToken
                  /\ fetches[2].token # fetches[1].token
                  /\ HasStatus(fetches[2].result) =>
                       resp = UsageResult(fetches[2].result.status, fetches[2].result.body)

\* A request answered 401, refreshed, was answered 200 and reports the 200.
C9_Witness ==
    /\ pc[UsageReq] = "responded"
    /\ Len(fetches) = 2
    /\ fetches[1].result.status = StatusUnauthorized
    /\ fetches[2].result.status = StatusOK
    /\ fetches[2].result.body # fetches[1].result.body
    /\ Len(runs[UsageReq]) = 1
    /\ resp.success /\ resp.upstream_status = StatusOK
    /\ resp.data = Payload(fetches[2].result.body)

\* C10: a usage request in which the executor succeeded has called
\* model.ChannelGroup.Load by the time it has responded, whatever the retry
\* returned.
C10_LoadAfterReauth ==
    (pc[UsageReq] = "responded" /\ Succeeded(UsageReq) # {}) => loads[UsageReq] >= 1

\* C11: a request whose first fetch was answered 401 or 403 and whose executor
\* run failed makes no second fetch and answers with the status and body of
\* the first fetch and success = false; and whenever the last fetch returned
\* an error or a status outside 200..299 the response has success = false.
C11_FailureReported ==
    (pc[UsageReq] = "responded" /\ Len(fetches) >= 1) =>
        LET first == fetches[1].result
            last  == Last(fetches).result
        IN  /\ ( /\ HasStatus(first)
                 /\ first.status \in {StatusUnauthorized, StatusForbidden}
                 /\ Len(runs[UsageReq]) = 1
                 /\ Last(runs[UsageReq]).result # "ok" ) =>
                   /\ Len(fetches) = 1
                   /\ resp.kind = "result"
                   /\ resp.upstream_status = first.status
                   /\ resp.data = Payload(first.body)
                   /\ ~resp.success
            /\ (last.err \/ last.status < StatusOK \/ last.status >= StatusOK + 100) =>
                   ~resp.success

\* A request answered 403 whose refresh was rejected reports the 403.
C11_Witness ==
    /\ pc[UsageReq] = "responded"
    /\ Len(fetches) = 1
    /\ fetches[1].result.status = StatusForbidden
    /\ Len(runs[UsageReq]) = 1
    /\ Last(runs[UsageReq]).result = "refresh_failed"
    /\ resp.upstream_status = StatusForbidden
    /\ ~resp.success

\* A token call that has returned.
Returned(c, op) == tpc[c] = "returned" /\ call[c].op = op

\* C12: ValidateToken of a token GenerateToken returned for (t, u) returns
\* (t, u) and no error, whatever alphabet InitUserToken accepted and whatever
\* the secret.
C12_RoundTrip ==
    \A c \in Callers :
        (Returned(c, "validate") /\ call[c].kind = "issued") =>
            /\ call[c].err = "nil"
            /\ call[c].ret = <<call[c].base.tokenID, call[c].base.userID>>

\* C13: ValidateToken never returns identifier values for a token whose
\* signature segment differs in one character from the one issued.
C13_TamperNeverAccepted ==
    \A c \in Callers :
        (Returned(c, "validate") /\ call[c].kind = "tampered") => call[c].err # "nil"

\* The first string of a sequence that is not empty, else the empty string.
RECURSIVE FirstNonEmpty(_)
FirstNonEmpty(strings) ==
    IF strings = << >> THEN EmptyString
    ELSE IF Head(strings) # EmptyString THEN Head(strings)
    ELSE FirstNonEmpty(Tail(strings))

\* The three configured keys, trimmed, in the order of their priority.
ConfiguredSecrets ==
    <<TrimSpace(settings.user_token_secret), TrimSpace(settings.token_secret),
      TrimSpace(settings.session_secret)>>

KeptSecret == IF secretFile.exists THEN TrimSpace(secretFile.text) ELSE EmptyString

\* C14 as stated: InitUserToken takes the first of user_token_secret,
\* token_secret and session_secret that is not blank; when all three are unset
\* it takes config.SessionSecret; it fails only when nothing is resolvable.
C14_SessionSecretWhenUnset ==
    [][inits' = inits + 1 =>
        LET secret == FirstNonEmpty(ConfiguredSecrets \o <<TrimSpace(SessionSecret)>>)
        IN  IF secret = EmptyString
            THEN initErr' = "token secret is not configured"
            ELSE jwtSecretBytes' = secret /\ initErr' # "token secret is not configured"
      ]_vars

\* C14, amended: between the three configured keys and config.SessionSecret
\* comes the secret kept in the file .user_token_secret; config.SessionSecret
\* is taken only when that file is missing or blank, and is then written to
\* the file.  InitUserToken returns the missing-secret error only when all
\* five are blank; with a secret it sets the key and returns what sqids.New
\* returned.
C14_ResolutionOrder ==
    [][inits' = inits + 1 =>
        LET configured == FirstNonEmpty(ConfiguredSecrets)
            secret == FirstNonEmpty(ConfiguredSecrets
                                    \o <<KeptSecret, TrimSpace(SessionSecret)>>)
            written == [exists |-> TRUE, text |-> TrimSpace(SessionSecret)]
        IN  /\ IF secret = EmptyString
               THEN /\ initErr' = "token secret is not configured"
                    /\ UNCHANGED jwtSecretBytes
               ELSE /\ jwtSecretBytes' = secret
                    /\ initErr' = IF SqidsNew(TrimSpace(settings.hashids_salt)).ok
                                  THEN "nil" ELSE "sqids"
            /\ IF configured = EmptyString /\ KeptSecret = EmptyString /\ secret # EmptyString
               THEN secretFile' \in {secretFile, written}
               ELSE UNCHANGED secretFile
      ]_vars

\* With no key configured, a kept secret and a different session secret,
\* InitUserToken has taken the kept secret.
C14_Witness ==
    /\ FirstNonEmpty(ConfiguredSecrets) = EmptyString
    /\ KeptSecret = <<"f">>
    /\ TrimSpace(SessionSecret) = <<"p">>
    /\ inits = 1
    /\ initErr = "nil"
    /\ jwtSecretBytes = <<"f">>

\* C15: an invocation that acquired the guard comes to its return with
\* codexCredentialRefreshRunning reset to false, on the normal path, after a
\* failed page query and after a panic of the cache reload; and an invocation
\* that finds the guard reset starts a sweep and is not skipped.
C15_GuardReleased ==
    /\ \A s \in Sweepers :
         PastGuard(s) ~> (pc[s] = "idle" /\ ~codexCredentialRefreshRunning)
    /\ [][\A s \in Sweepers :
            /\ (PastGuard(s) /\ ~PastGuard(s)') => ~codexCredentialRefreshRunning'
            /\ (pc[s] = "idle" /\ ~codexCredentialRefreshRunning /\ pc'[s] # "idle")
                 => (pc'[s] = "query" /\ codexCredentialRefreshRunning')
       ]_vars

\* A sweep that refreshed a channel is ending early on a failed page query,
\* the guard still set.
C15_Witness ==
    \E s \in Sweepers :
        /\ pc[s] = "aborted"
        /\ refreshed[s] >= 1
        /\ codexCredentialRefreshRunning

\* Channels a sweep has examined so far.
Scanned(s) == {c \in ChannelIds : examined[s][c].n >= 1}

InExecutor(p) == pc[p] \in {"exec_refresh", "exec_write"}

Requests == {UsageReq, ManualReq}

\* The step in which the executor of worker p wrote the store and returned nil.
WriteStep(p) == pc[p] = "exec_write" /\ pc'[p] = "exec_ret" /\ execErr'[p] = "nil"

\* C17: the guard keeps no request out of the executor, and the store takes
\* every successful write as it comes: the write of a run sets the channel's
\* key to that run's blob whatever another run has written since the channel
\* was read, nothing else changes a key, and so, after two runs for one
\* channel have both succeeded, the key is the blob of the one that wrote last.
C17_LastWriteWins ==
    [][ /\ \A p \in Procs :
             WriteStep(p) => db' = [db EXCEPT ![ch[p].Id].Key = ToJSON(creds[p])]
        /\ db' # db => \E p \in Procs : WriteStep(p)
        /\ \A s \in Sweepers, r \in Requests :
             ( /\ runs'[s] # << >> /\ runs'[r] # << >>
               /\ Last(runs'[s]).id = Last(runs'[r]).id
               /\ Last(runs'[s]).result = "ok" /\ Last(runs'[r]).result = "ok" ) =>
                 /\ db'[Last(runs'[s]).id].Key
                      \in {Last(runs'[s]).written, Last(runs'[r]).written}
                 /\ WriteStep(s) => db'[ch[s].Id].Key = Last(runs'[s]).written
                 /\ WriteStep(r) => db'[ch[r].Id].Key = Last(runs'[r]).written
      ]_vars

\* The scheduler and a request are both inside the executor for one channel,
\* the guard set, the request having read the key before the scheduler wrote.
C17_Witness ==
    \E s \in Sweepers, r \in Requests :
        /\ codexCredentialRefreshRunning
        /\ InExecutor(s) /\ InExecutor(r)
        /\ ch[s].Id = ch[r].Id
        /\ ch[s].Key = ch[r].Key

\* Token calls that hold a keyed-hash context.
Holding == {c \in Callers : h[c] # 0}

\* C18: no keyed-hash context is held by two token calls at once or lies in
\* hmacPool while a call holds it; every context in hmacPool has been reset;
\* and what a call's signature was computed over, on a successful and on a
\* failed return alike, is exactly that call's own payload.
C18_PoolDiscipline ==
    /\ \A c, d \in Holding : h[c] = h[d] => c = d
    /\ \A c \in Holding : h[c] \notin hmacPool /\ hmacCtx[h[c]].made
    /\ \A i \in hmacPool : hmacCtx[i].made /\ hmacCtx[i].buf = << >>
    /\ \A c \in Callers :
         /\ tpc[c] \in {"sum", "check"} => hmacCtx[h[c]].buf = call[c].payload
         /\ tpc[c] \in {"release", "returned"} => call[c].signedOver = call[c].payload
         /\ (tpc[c] = "returned" /\ call[c].op = "generate" /\ call[c].err = "nil") =>
              call[c].token = call[c].payload \o <<Underscore>>
                  \o EncodeToString(Sum(Write(NewHash(call[c].signedKey), call[c].payload)))

\* After an earlier call has put its context back, one call is returning a
\* signature mismatch while the other, holding a context of its own, has
\* written a different payload.
C18_Witness ==
    \E c, d \in Callers :
        /\ tpc[c] = "release" /\ call[c].err = "signature mismatch"
        /\ tpc[d] = "sum"
        /\ call[c].payload # call[d].payload
        /\ wire.valid

\* The number of leading segments of a path that are exactly "v1".
RECURSIVE LeadingV1(_)
LeadingV1(p) ==
    IF HasPrefix(p, V1) /\ (Len(p) = Len(V1) \/ p[Len(V1) + 1] = Slash)
    THEN 1 + LeadingV1(TrimPrefix(p, V1))
    ELSE 0

\* A path without the first n of its leading "/v1" segments.
RECURSIVE DropV1(_, _)
DropV1(p, n) == IF n = 0 THEN p ELSE DropV1(TrimPrefix(p, V1), n - 1)

\* C19: a handled request whose path came with two or more leading "/v1"
\* segments was dispatched again exactly once and handed on with exactly one
\* of them; a request with any other path, "/v1/v1beta/..." included, was
\* handed on with the path it came with and never dispatched again.
C19_OnlyDuplicatedV1Rewritten ==
    rpc = "handled" =>
        IF LeadingV1(arrived) >= 2
        THEN dispatches = 1 /\ served = <<DropV1(arrived, LeadingV1(arrived) - 1)>>
        ELSE dispatches = 0 /\ served = <<arrived>>

\* C20: once InitUserToken has set the secret, every context a token call
\* holds, and so every signature it computes or checks, is keyed with
\* jwtSecretBytes as it is now, whatever calls came before.
C20_SignedWithCurrentSecret ==
    \A c \in Callers :
        /\ (jwtSecretBytes # << >> /\ h[c] # 0) => hmacCtx[h[c]].key = jwtSecretBytes
        /\ (jwtSecretBytes # << >> /\ tpc[c] = "returned" /\ call[c].op = "generate"
              /\ call[c].err = "nil") => call[c].signedKey = jwtSecretBytes

\* None of user_token_secret, token_secret and session_secret is configured.
NoKeyConfigured == FirstNonEmpty(ConfiguredSecrets) = EmptyString

\* The token was issued while the secret file held the key that signed it.
IssuedUnderKeptSecret(w) ==
    w.valid /\ w.file.exists /\ w.key # EmptyString /\ TrimSpace(w.file.text) = w.key

\* C21: with no key configured, (1) a start that finds no kept secret and
\* writes the file writes the secret it resolved, its config.SessionSecret;
\* (2) a file that holds a secret, text that is not blank, is never
\* rewritten; (3) every process that has started signs with the secret the
\* file holds, whatever its own config.SessionSecret is; and so (4) a token
\* issued once the secret was persisted validates, with its ids, in that
\* process and in every later one.
C21_SecretStableAcrossRestarts ==
    /\ [][NoKeyConfigured =>
            /\ (inits' = inits + 1 /\ KeptSecret = EmptyString /\ secretFile' # secretFile)
                 => /\ secretFile' = [exists |-> TRUE, text |-> TrimSpace(SessionSecret')]
                    /\ jwtSecretBytes' = TrimSpace(SessionSecret')
            /\ KeptSecret # EmptyString => secretFile' = secretFile
         ]_vars
    /\ [](NoKeyConfigured =>
            /\ (initErr = "nil" /\ KeptSecret # EmptyString) => jwtSecretBytes = KeptSecret
            /\ \A c \in Callers :
                 (tpc[c] = "returned" /\ call[c].op = "validate" /\ call[c].kind = "issued"
                    /\ IssuedUnderKeptSecret(call[c].base))
                   => /\ call[c].err = "nil"
                      /\ call[c].ret = <<call[c].base.tokenID, call[c].base.userID>>)

\* No key is configured and there was no secret file at the first start; a
\* later process, whose config.SessionSecret is another one, has validated a
\* token that the first process issued.
C21_Witness ==
    \E c \in Callers :
        /\ NoKeyConfigured
        /\ tpc[c] = "returned" /\ call[c].op = "validate" /\ call[c].kind = "issued"
        /\ call[c].err = "nil"
        /\ call[c].base.session = FreshSessions[1]
        /\ call[c].base.key = TrimSpace(FreshSessions[1])
        /\ SessionSecret # call[c].base.session
        /\ jwtSecretBytes = call[c].base.key

\* C22: whatever the interleaving of sweeps, usage requests and manual
\* refreshes, no step replaces the token set a channel's key holds with one
\* the authorization endpoint issued earlier, so that the key holds the set
\* issued last once the runs in flight have written.
C22_NoStaleOverwrite ==
    [][\A id \in ChannelIds : \A m, n \in 1..MaxIssued :
          ( /\ db[id].Key.json /\ db'[id].Key.json
            /\ db[id].Key.c.RefreshToken = Tok(m)
            /\ db'[id].Key.c.RefreshToken = Tok(n) ) => m <= n
      ]_vars

====
